---- MODULE Spec2Model ----
(***************************************************************************)
(* Model of the Telegram -> SQS -> Agent relay:                            *)
(*   agent-sdk-client/config.py    command extraction, configuration       *)
(*   agent-sdk-client/security.py  secret token, whitelist, group policy   *)
(*   agent-sdk-client/handler.py   webhook producer (Dispatcher)           *)
(*   agent-sdk-client/consumer.py  SQS consumer (Worker)                   *)
(* Texts are sequences of one-character strings.  An optional value is a   *)
(* sequence of length at most one: None is <<>>, a present value v is <<v>>.*)
(***************************************************************************)
EXTENDS Integers, Sequences, FiniteSets, TLC

VARIABLES
    raw,        \* the configuration document on disk (config.toml)
    cfg,        \* Config: agent_commands, local_commands, user_whitelist
    secret,     \* TELEGRAM_WEBHOOK_SECRET of the deployment (optional)
    probe,      \* last classification of a command token against cfg
    pending,    \* webhook event received and not yet handled (optional)
    wh,         \* outcome of the last handled webhook invocation
    queue,      \* the SQS FIFO queue: every message ever accepted, with its status
    worker,     \* running consumer invocations: batch, position, step of process_message
    dedup,      \* message-dedup store: whether a table is configured, its items
    now,        \* wall clock in seconds
    claims,     \* outcomes observed by the callers of is_message_duplicate
    applied,    \* last application of a function of config.py / security.py
    job,        \* one consumer invocation followed statement by statement
    gateway     \* Agent Server: the session store and the last request handled

vars == <<raw, cfg, secret, probe, pending, wh, queue, worker,
          dedup, now, claims, applied, job, gateway>>

---------------------------------------------------------------------------
(* Optional values and Python truthiness *)

None == <<>>

Some(v) == <<v>>

IsNone(o) == o = <<>>

Val(o) == o[1]

\* bool(x) of an optional integer: None and 0 are falsy
TruthyInt(o) == o /= <<>> /\ o[1] /= 0

\* bool(x) of an optional string: None and "" are falsy
TruthyStr(o) == o /= <<>> /\ o[1] /= <<>>

\* Python's `a or b`
OrInt(a, b) == IF TruthyInt(a) THEN a ELSE b

OrStr(a, b) == IF TruthyStr(a) THEN a ELSE b

Range(s) == {s[i] : i \in 1..Len(s)}

RECURSIVE SeqsUpTo(_, _)
SeqsUpTo(S, n) ==
    IF n = 0 THEN {<<>>}
    ELSE LET shorter == SeqsUpTo(S, n - 1)
         IN  shorter \cup {Append(s, x) : s \in {t \in shorter : Len(t) = n - 1}, x \in S}

---------------------------------------------------------------------------
(* config.py: extract_command *)

Whitespace == {" "}

RECURSIVE LStrip(_)
LStrip(s) ==
    IF s /= <<>> /\ Head(s) \in Whitespace THEN LStrip(Tail(s)) ELSE s

RECURSIVE RStrip(_)
RStrip(s) ==
    IF s /= <<>> /\ s[Len(s)] \in Whitespace
    THEN RStrip(SubSeq(s, 1, Len(s) - 1))
    ELSE s

\* str.strip()
Strip(s) == LStrip(RStrip(s))

\* the prefix of s before the first character in stop (all of s if none)
RECURSIVE TakeUntil(_, _)
TakeUntil(s, stop) ==
    IF s = <<>> \/ Head(s) \in stop THEN <<>>
    ELSE <<Head(s)>> \o TakeUntil(Tail(s), stop)

\* str.split()[0] of a string with no leading whitespace
FirstWord(s) == TakeUntil(s, Whitespace)

\* the text after the first word and the whitespace that follows it:
\* str.strip().split(maxsplit=1)[1], or "" when there is no second part
RestAfterFirstWord(s) ==
    LET t == Strip(s)
        w == FirstWord(t)
    IN  LStrip(SubSeq(t, Len(w) + 1, Len(t)))

\* mutant: any non-empty trimmed text counts as a command
StartsWithSlash_nonempty(s) == s /= <<>>

StartsWithSlash(s) == s /= <<>> /\ Head(s) = "/"

\* mutant: the mention suffix is kept
extract_command_keeps_mention(text) ==
    IF ~TruthyStr(text) THEN None
    ELSE LET trimmed == Strip(Val(text))
         IN  IF ~StartsWithSlash(trimmed) THEN None
             ELSE LET command == Strip(FirstWord(trimmed))
                  IN  IF command = <<>> \/ command = <<"/">>
                      THEN None
                      ELSE Some(command)

extract_command(text) ==
    IF ~TruthyStr(text) THEN None
    ELSE LET trimmed == Strip(Val(text))
         IN  IF ~StartsWithSlash(trimmed) THEN None
             ELSE LET word    == FirstWord(trimmed)
                      command == Strip(IF "@" \in Range(word)
                                       THEN TakeUntil(word, {"@"})
                                       ELSE word)
                  IN  IF command = <<>> \/ command = <<"/">>
                      THEN None
                      ELSE Some(command)

---------------------------------------------------------------------------
(* config.py: _parse_local_command, _load_config, Config *)

\* A configuration document:
\*   exists, parses  the file is there / is valid TOML
\*   utf8            the file's bytes decode as UTF-8 (tomllib.load raises
\*                   UnicodeDecodeError otherwise, which the except clause of
\*                   _load_config does not name)
\*   agent   [t, items]  t: "missing" | "badsection" | "notlist" | "list";
\*                       items: sequence of [str, s] (str = FALSE: not a string)
\*   local   [t, entries] t: "missing" | "nottable" | "table";
\*                       entries: sequence of [name, v],
\*                       v = [k, type, response, handler], k: "str" | "dict" | "other"
\*   wl      [t, items]  t: "missing" | "badsection" | "notlist" | "list";
\*                       items: sequence of [k, n], k: "all" | "int" | "other"

NoCfg == [ok |-> FALSE, agent_commands |-> <<>>, local_commands |-> <<>>,
          user_whitelist |-> <<>>]

DefaultCfg == [ok |-> TRUE, agent_commands |-> <<>>, local_commands |-> <<>>,
               user_whitelist |-> <<[k |-> "all", n |-> 0]>>]

\* cmd = f"/{name.lstrip('/')}" if not name.startswith('/') else name
NormalizeName(name) ==
    IF StartsWithSlash(name) THEN name ELSE <<"/">> \o name

\* (normalized_cmd, LocalCommand | None); the LocalCommand is optional
_parse_local_command(name, v) ==
    LET cmd == NormalizeName(name)
        static(r) == [cmd |-> cmd, type |-> "static", response |-> r, handler |-> ""]
        handler(h) == [cmd |-> cmd, type |-> "handler", response |-> <<>>, handler |-> h]
    IN  IF v.k = "str" THEN Some(static(v.response))
        ELSE IF v.k = "dict" THEN
            IF v.type = "static"
            THEN (IF v.response = <<>> THEN None ELSE Some(static(v.response)))
            ELSE IF v.type = "handler"
            THEN (IF v.handler = "" THEN None ELSE Some(handler(v.handler)))
            ELSE None
        ELSE None

\* local_commands[cmd] = parsed on an insertion-ordered dict
DictPut(d, e) ==
    IF \E i \in 1..Len(d) : d[i].cmd = e.cmd
    THEN [i \in 1..Len(d) |-> IF d[i].cmd = e.cmd THEN e ELSE d[i]]
    ELSE Append(d, e)

RECURSIVE LoadLocal(_, _)
LoadLocal(entries, acc) ==
    IF entries = <<>> THEN acc
    ELSE LET parsed == _parse_local_command(Head(entries).name, Head(entries).v)
         IN  LoadLocal(Tail(entries),
                       IF IsNone(parsed) THEN acc ELSE DictPut(acc, Val(parsed)))

\* [cmd for cmd in agent_commands if isinstance(cmd, str)]
RECURSIVE KeepStrings(_)
KeepStrings(items) ==
    IF items = <<>> THEN <<>>
    ELSE (IF Head(items).str THEN <<Head(items).s>> ELSE <<>>)
         \o KeepStrings(Tail(items))

\* item == 'all', else isinstance(item, int): a TOML boolean is a Python bool,
\* and bool is a subclass of int
RECURSIVE ValidateWhitelist(_)
ValidateWhitelist(items) ==
    IF items = <<>> THEN <<>>
    ELSE (IF Head(items).k \in {"all", "int", "bool"} THEN <<Head(items)>> ELSE <<>>)
         \o ValidateWhitelist(Tail(items))

_load_config(doc) ==
    IF ~doc.exists THEN DefaultCfg
    ELSE IF ~doc.utf8 THEN NoCfg
    ELSE IF ~doc.parses THEN DefaultCfg
    ELSE IF doc.agent.t = "badsection" \/ doc.wl.t = "badsection" THEN NoCfg
    ELSE LET agent == IF doc.agent.t = "list" THEN KeepStrings(doc.agent.items)
                      ELSE <<>>
             local == IF doc.local.t = "table" THEN LoadLocal(doc.local.entries, <<>>)
                      ELSE <<>>
             valid == ValidateWhitelist(doc.wl.items)
             wl    == IF doc.wl.t = "list"
                      THEN (IF valid /= <<>> THEN valid ELSE DefaultCfg.user_whitelist)
                      ELSE DefaultCfg.user_whitelist
         IN  [ok |-> TRUE, agent_commands |-> agent, local_commands |-> local,
              user_whitelist |-> wl]

\* Config.is_agent_command: bool(cmd) and cmd in self.agent_commands
is_agent_command(c, cmd) ==
    TruthyStr(cmd) /\ Val(cmd) \in Range(c.agent_commands)

\* Config.is_local_command: bool(cmd) and cmd in self.local_commands
is_local_command(c, cmd) ==
    TruthyStr(cmd) /\ \E i \in 1..Len(c.local_commands) : c.local_commands[i].cmd = Val(cmd)

\* Config.get_local_command: self.local_commands.get(cmd), optional
get_local_command(c, cmd) ==
    IF \E i \in 1..Len(c.local_commands) : c.local_commands[i].cmd = cmd
    THEN Some(c.local_commands[CHOOSE i \in 1..Len(c.local_commands) :
                                   c.local_commands[i].cmd = cmd])
    ELSE None

\* Config.unknown_command_message, as the lists it prints: the agent commands
\* and the local command names, each section present only when non-empty
unknown_command_message(c) ==
    [kind   |-> "unknown_command",
     agent  |-> c.agent_commands,
     local  |-> [i \in 1..Len(c.local_commands) |-> c.local_commands[i].cmd]]

---------------------------------------------------------------------------
(* security.py *)

\* Characters outside ASCII that a header value or a secret can hold
\* (one of them, written by its code point).
NonAscii == {"U+00E9"}

IsAscii(s) == \A i \in 1..Len(s) : s[i] \notin NonAscii

\* a Python bool, or the exception that replaced it
Bool(b) == IF b THEN "True" ELSE "False"

\* hmac.compare_digest(request_token, expected_token): for two str it
\* raises TypeError unless both hold ASCII characters only
compare_digest(a, b) ==
    IF ~IsAscii(a) \/ ~IsAscii(b) THEN "TypeError" ELSE Bool(a = b)

verify_telegram_secret_token(request_token, expected_token) ==
    IF ~TruthyStr(expected_token) THEN "True"
    ELSE IF ~TruthyStr(request_token) THEN "False"
    ELSE compare_digest(Val(request_token), Val(expected_token))

\* mutant: the wildcard entry is not honoured
is_user_allowed_members_only(user_id, whitelist) ==
    \E i \in 1..Len(whitelist) : whitelist[i].k = "int" /\ whitelist[i].n = user_id

\* mutant: every sender is allowed
is_user_allowed_everyone(user_id, whitelist) == TRUE

\* 'all' in whitelist, else user_id in whitelist (an entry True equals 1)
is_user_allowed(user_id, whitelist) ==
    IF \E i \in 1..Len(whitelist) : whitelist[i].k = "all" THEN TRUE
    ELSE \E i \in 1..Len(whitelist) :
             whitelist[i].k \in {"int", "bool"} /\ whitelist[i].n = user_id

\* mutant: a bot that was kicked before is not seen as joining
IsJoin_from_left_only(old_status, new_status) ==
    old_status = "left" /\ new_status \in {"member", "administrator"}

IsJoin(old_status, new_status) ==
    old_status \in {"left", "kicked"} /\ new_status \in {"member", "administrator"}

\* update.my_chat_member is present for the events this is applied to
should_leave_group(ev, whitelist) ==
    IF ev.kind /= "member" THEN FALSE
    ELSE IF IsJoin(ev.old, ev.new)
         THEN ~is_user_allowed(ev.inviter, whitelist)
         ELSE FALSE

---------------------------------------------------------------------------
(* handler.py: effects of one webhook invocation *)

\* An effect is one call to the outside world, in program order:
\*   op   "send_message" | "send_document" | "leave_chat" | "get_chat" | "get_me"
\*        | "get_chat_member" | "create_forum_topic" | "sqs_send"
\*   ok   whether the call succeeded (a failing call raises in the caller)
\* The n-th chat-platform call of an invocation fails iff n is in the failure
\* pattern F of that invocation.

NoText == [kind |-> "", body |-> <<>>, agent |-> <<>>, local |-> <<>>]

Txt(kind, body) == [kind |-> kind, body |-> body, agent |-> <<>>, local |-> <<>>]

Effect(op, chat, thread, reply_to, text) ==
    [op |-> op, chat |-> chat, thread |-> thread, reply_to |-> reply_to,
     text |-> text, ok |-> TRUE, sqs |-> None]

SendMessage(chat, thread, reply_to, text) ==
    Effect("send_message", chat, thread, reply_to, text)

Api(op, chat) == Effect(op, chat, None, None, NoText)

TgCount(t) == Cardinality({i \in 1..Len(t) : t[i].op /= "sqs_send"})

TgOk(t, F) == (TgCount(t) + 1) \notin F

\* perform a chat-platform call: the trace with the call appended
Tg(t, F, call) == Append(t, [call EXCEPT !.ok = TgOk(t, F)])

\* result of a sub-routine: its trace and whether it raised
Ret(t) == [t |-> t, raised |-> FALSE]

Raise(t) == [t |-> t, raised |-> TRUE]

\* an unprotected call: raises in the caller when it fails
Unprotected(t, F, call) ==
    IF TgOk(t, F) THEN Ret(Tg(t, F, call)) ELSE Raise(Tg(t, F, call))

\* a call inside try/except Exception: never raises
Protected(t, F, call) == Ret(Tg(t, F, call))

---------------------------------------------------------------------------
(* handler.py: _send_to_sqs_safe *)

SqsFailures == {"QueueDoesNotExist", "AccessDenied", "ThrottlingException",
                "InvalidParameterValue", "OtherClientError", "Unexpected"}

SqsOutcomes == {"ok"} \cup SqsFailures

\* str() of an integer, as its characters
DecimalDigit(d) == <<"0", "1", "2", "3", "4", "5", "6", "7", "8", "9">>[d + 1]

RECURSIVE FormatNat(_)
FormatNat(n) ==
    IF n < 10 THEN <<DecimalDigit(n)>>
    ELSE FormatNat(n \div 10) \o <<DecimalDigit(n % 10)>>

FormatInt(n) == IF n < 0 THEN <<"-">> \o FormatNat(0 - n) ELSE FormatNat(n)

\* mutation: one group per message instead of one per chat and thread
MessageGroupId_per_message(body) == <<body.chat_id, Some(body.message_id)>>

\* thread_id = message_body.get('thread_id') or 'default'
\* message_group_id = f"{chat_id}:{thread_id}"
MessageGroupId(body) ==
    FormatInt(body.chat_id) \o <<":">>
        \o (IF TruthyInt(body.thread_id) THEN FormatInt(Val(body.thread_id))
            ELSE <<"d", "e", "f", "a", "u", "l", "t">>)

\* mutant: the token has no random suffix
MessageDeduplicationId_no_suffix(body, u) ==
    FormatInt(body.chat_id) \o <<"-">> \o FormatInt(body.message_id)

\* f"{chat_id}-{message_id}-{uuid.uuid4().hex[:8]}", u the random suffix
MessageDeduplicationId(body, u) ==
    FormatInt(body.chat_id) \o <<"-">> \o FormatInt(body.message_id)
        \o <<"-">> \o FormatInt(u)

\* the metric each failure branch reports before it returns False
SqsMetric(sq) ==
    CASE sq = "ok"                    -> "SQSMessageSent"
      [] sq = "QueueDoesNotExist"     -> "SQSError.QueueNotFound"
      [] sq = "AccessDenied"          -> "SQSError.AccessDenied"
      [] sq = "ThrottlingException"   -> "SQSError.Throttled"
      [] sq = "InvalidParameterValue" -> "SQSError.InvalidParameter"
      [] sq = "OtherClientError"      -> "SQSError.Other"
      [] OTHER                        -> "SQSError.Unexpected"

\* [success, raised, t]: sq is what sqs.send_message does, u the uuid4 suffix
_send_to_sqs_safe(t, body, sq, u) ==
    LET eff == [op |-> "sqs_send", chat |-> body.chat_id, thread |-> None,
                reply_to |-> None, text |-> Txt(SqsMetric(sq), <<>>),
                ok |-> (sq = "ok"),
                sqs |-> Some([group |-> MessageGroupId(body),
                              dedup_id |-> MessageDeduplicationId(body, u),
                              body |-> body])]
    IN  [success |-> (sq = "ok"), raised |-> FALSE, t |-> Append(t, eff)]

---------------------------------------------------------------------------
(* handler.py: local command handlers *)

\* A webhook event:
\*   token    x-telegram-bot-api-secret-token header (optional string)
\*   kind     "badjson" | "noupdate" | "member" | "message" | "other"
\*   member:  old, new (statuses), inviter; forum / perm are what get_chat and
\*            get_chat_member report for the chat
\*   message: ctype, forum, thread (optional), text (optional), from (optional),
\*            chat, mid; dbg is what the session store holds for /debug
\* An oracle o = [F, sq, u, topic]: failure pattern of the chat-platform calls,
\* outcome of sqs.send_message, uuid4 suffix, id of a newly created topic.

HANDLER_TYPE_HANDLERS == {"newchat", "start", "debug"}

OriginalUpdate(ev) ==
    [chat |-> ev.chat, mid |-> ev.mid, thread |-> ev.thread, text |-> ev.text]

\* mutant: the job is enqueued although the confirmation could not be sent
_handle_newchat_async_unconfirmed(t0, ev, o, prompts) ==
    LET created == Tg(t0, o.F, Api("create_forum_topic", ev.chat))
        confirmed == Tg(created, o.F,
                        SendMessage(ev.chat, ev.thread, Some(ev.mid),
                                    Txt("newchat_created", <<o.topic>>)))
        message_body == [update |-> OriginalUpdate(ev), chat_id |-> ev.chat,
                         message_id |-> ev.mid, text |-> Some(prompts),
                         thread_id |-> Some(o.topic), has_time |-> FALSE]
    IN  IF ~TgOk(t0, o.F) THEN Ret(created)
        ELSE Ret(_send_to_sqs_safe(confirmed, message_body, o.sq, o.u).t)

_handle_newchat_async(t0, ev, o, prompts) ==
    LET chat == ev.chat
        created == Tg(t0, o.F, Api("create_forum_topic", chat))
        confirm == SendMessage(chat, ev.thread, Some(ev.mid),
                               Txt("newchat_created", <<o.topic>>))
        confirmed == Tg(created, o.F, confirm)
        message_body == [update |-> OriginalUpdate(ev), chat_id |-> chat,
                         message_id |-> ev.mid, text |-> Some(prompts),
                         thread_id |-> Some(o.topic), has_time |-> FALSE]
        sent == _send_to_sqs_safe(confirmed, message_body, o.sq, o.u)
        failed(t) == Unprotected(t, o.F,
                         SendMessage(chat, ev.thread, None, Txt("newchat_failed", <<>>)))
    IN  IF ~TgOk(t0, o.F) THEN failed(created)
        ELSE IF ~TgOk(created, o.F) THEN failed(confirmed)
        ELSE IF sent.raised THEN failed(sent.t)
        ELSE IF sent.success THEN Ret(sent.t)
        ELSE LET notice == SendMessage(chat, Some(o.topic), None,
                                       Txt("enqueue_failed", <<>>))
             IN  IF TgOk(sent.t, o.F) THEN Ret(Tg(sent.t, o.F, notice))
                 ELSE failed(Tg(sent.t, o.F, notice))

\* mutant: the thread of the command is not looked at
_handle_newchat_handler_any_thread(t0, ev, o) ==
    LET prompts == RestAfterFirstWord(Val(ev.text))
    IN  IF prompts = <<>>
        THEN Unprotected(t0, o.F, SendMessage(ev.chat, ev.thread, None,
                                              Txt("newchat_usage", <<>>)))
        ELSE _handle_newchat_async(t0, ev, o, prompts)

_handle_newchat_handler(t0, ev, o) ==
    IF TruthyInt(ev.thread) /\ Val(ev.thread) /= 1
    THEN Unprotected(t0, o.F, SendMessage(ev.chat, ev.thread, Some(ev.mid),
                                          Txt("newchat_general_only", <<>>)))
    ELSE LET prompts == RestAfterFirstWord(Val(ev.text))
         IN  IF prompts = <<>>
             THEN Unprotected(t0, o.F, SendMessage(ev.chat, ev.thread, None,
                                                   Txt("newchat_usage", <<>>)))
             ELSE _handle_newchat_async(t0, ev, o, prompts)

_handle_start_handler(t0, ev, o) ==
    IF ev.ctype /= "private" THEN Ret(t0)
    ELSE Unprotected(t0, o.F, SendMessage(ev.chat, None, None, Txt("welcome", <<>>)))

\* dbg: "noenv" (SESSION_TABLE/SESSION_BUCKET unset) | "queryfail" | "noitem"
\*      | "nofiles" | "files" (two session files found)
_handle_debug_handler(t0, ev, o) ==
    LET say(kind) == Unprotected(t0, o.F,
                         SendMessage(ev.chat, ev.thread, None, Txt(kind, <<>>)))
        doc == Effect("send_document", ev.chat, ev.thread, None, NoText)
    IN  IF ev.dbg = "noenv" THEN say("debug_noenv")
        ELSE IF ev.dbg = "queryfail" THEN say("debug_queryfail")
        ELSE IF ev.dbg = "noitem" THEN say("debug_noitem")
        ELSE IF ev.dbg = "nofiles" THEN say("debug_nofiles")
        ELSE LET head == say("debug_session")
             IN  IF head.raised THEN head
                 ELSE LET first == Unprotected(head.t, o.F, doc)
                      IN  IF first.raised THEN first
                          ELSE Unprotected(first.t, o.F, doc)

_handle_local_command(t0, ev, c, o, cmd) ==
    LET local_cmd == get_local_command(c, cmd)
        reply(text) == SendMessage(ev.chat, ev.thread, Some(ev.mid), text)
    IN  IF IsNone(local_cmd)
        THEN Protected(t0, o.F, reply(unknown_command_message(c)))
        ELSE IF Val(local_cmd).type = "static"
        THEN Protected(t0, o.F, reply(Txt("static", Val(local_cmd).response)))
        ELSE IF Val(local_cmd).type = "handler"
                /\ Val(local_cmd).handler \in HANDLER_TYPE_HANDLERS
        THEN CASE Val(local_cmd).handler = "newchat" -> _handle_newchat_handler(t0, ev, o)
               [] Val(local_cmd).handler = "start"   -> _handle_start_handler(t0, ev, o)
               [] OTHER                              -> _handle_debug_handler(t0, ev, o)
        ELSE Ret(t0)

---------------------------------------------------------------------------
(* handler.py: membership changes *)

_on_bot_joined(t0, ev, o) ==
    LET got == Tg(t0, o.F, Api("get_chat", ev.chat))
    IN  IF ~TgOk(t0, o.F) THEN Ret(got)
        ELSE IF ~ev.forum
        THEN Protected(got, o.F, SendMessage(ev.chat, None, None, Txt("no_forum", <<>>)))
        ELSE Protected(got, o.F, SendMessage(ev.chat, None, None, Txt("joined", <<>>)))

\* [t, is_ok, error_msg]
_check_forum_requirements(t0, ev, o) ==
    LET t1 == Tg(t0, o.F, Api("get_chat", ev.chat))
        t2 == Tg(t1, o.F, Api("get_me", ev.chat))
        t3 == Tg(t2, o.F, Api("get_chat_member", ev.chat))
        res(t, ok, msg) == [t |-> t, is_ok |-> ok, error_msg |-> msg]
    IN  IF ~TgOk(t0, o.F) THEN res(t1, FALSE, "check_failed")
        ELSE IF ~ev.forum THEN res(t1, FALSE, "no_forum")
        ELSE IF ~TgOk(t1, o.F) THEN res(t2, FALSE, "check_failed")
        ELSE IF ~TgOk(t2, o.F) THEN res(t3, FALSE, "check_failed")
        ELSE IF ~ev.perm THEN res(t3, FALSE, "no_permission")
        ELSE res(t3, TRUE, "")

_on_bot_promoted(t0, ev, o) ==
    LET chk == _check_forum_requirements(t0, ev, o)
    IN  IF ~chk.is_ok
        THEN Unprotected(chk.t, o.F,
                 SendMessage(ev.chat, None, None, Txt(chk.error_msg, <<>>)))
        ELSE Unprotected(chk.t, o.F,
                 SendMessage(ev.chat, None, None, Txt("promoted_welcome", <<>>)))

---------------------------------------------------------------------------
(* handler.py: lambda_handler (Producer) *)

Out(status, t) == [status |-> status, eff |-> t]

\* the tail of every path that ran a sub-routine: 200 unless it raised
Finish(r) == IF r.raised THEN Out("raised", r.t) ELSE Out("200", r.t)

IsGroup(ev) == ev.ctype \in {"group", "supergroup"}

\* mutant: the job text is the message text without its first word
QueueBody_drops_first_word(ev) ==
    [update |-> OriginalUpdate(ev), chat_id |-> ev.chat, message_id |-> ev.mid,
     text |-> Some(RestAfterFirstWord(Val(ev.text))), thread_id |-> ev.thread,
     has_time |-> TRUE]

QueueBody(ev) ==
    [update |-> OriginalUpdate(ev), chat_id |-> ev.chat, message_id |-> ev.mid,
     text |-> ev.text, thread_id |-> ev.thread, has_time |-> TRUE]

\* mutant: a command that is not local goes to the agent, known or not
RouteMessage_unknown_to_agent(ev, c, o) ==
    LET cmd == extract_command(ev.text)
    IN  IF TruthyStr(cmd) /\ is_local_command(c, cmd)
        THEN Finish(_handle_local_command(<<>>, ev, c, o, Val(cmd)))
        ELSE Finish(_send_to_sqs_safe(<<>>, QueueBody(ev), o.sq, o.u))

\* mutant: the agent command list is consulted before the local command table
RouteMessage_agent_first(ev, c, o) ==
    LET cmd == extract_command(ev.text)
    IN  IF TruthyStr(cmd) /\ is_agent_command(c, cmd)
        THEN Finish(_send_to_sqs_safe(<<>>, QueueBody(ev), o.sq, o.u))
        ELSE IF TruthyStr(cmd)
        THEN Finish(_handle_local_command(<<>>, ev, c, o, Val(cmd)))
        ELSE Finish(_send_to_sqs_safe(<<>>, QueueBody(ev), o.sq, o.u))

\* routing of a text message that passed the access and surface checks
RouteMessage(ev, c, o) ==
    LET cmd == extract_command(ev.text)
    IN  IF TruthyStr(cmd) /\ is_local_command(c, cmd)
        THEN Finish(_handle_local_command(<<>>, ev, c, o, Val(cmd)))
        ELSE IF TruthyStr(cmd) /\ ~is_agent_command(c, cmd)
        THEN Finish(_handle_local_command(<<>>, ev, c, o, Val(cmd)))
        ELSE Finish(_send_to_sqs_safe(<<>>, QueueBody(ev), o.sq, o.u))

HandleMember(ev, c, o) ==
    IF should_leave_group(ev, c.user_whitelist)
    THEN Finish(Unprotected(<<>>, o.F, Api("leave_chat", ev.chat)))
    ELSE IF IsJoin(ev.old, ev.new) THEN Finish(_on_bot_joined(<<>>, ev, o))
    ELSE IF ev.old = "member" /\ ev.new = "administrator"
    THEN Finish(_on_bot_promoted(<<>>, ev, o))
    ELSE Out("200", <<>>)

\* mutant: only a message without thread id counts as General
IsGeneralTopic_only_absent(thread) == IsNone(thread)

\* thread_id is None or thread_id == 1
IsGeneralTopic(thread) == IsNone(thread) \/ Val(thread) = 1

HandleMessage(ev, c, o) ==
    IF ~TruthyStr(ev.text) THEN Out("200", <<>>)
    ELSE IF ev.ctype = "private" /\ TruthyInt(ev.from)
            /\ ~is_user_allowed(Val(ev.from), c.user_whitelist)
    THEN Out("200", <<>>)
    ELSE IF IsGroup(ev) /\ ~ev.forum THEN Out("200", <<>>)
    ELSE IF IsGroup(ev) /\ ev.forum
            /\ IsGeneralTopic(ev.thread)
            /\ ~StartsWithSlash(Val(ev.text))
    THEN Finish(Unprotected(<<>>, o.F,
                    SendMessage(ev.chat, ev.thread, Some(ev.mid),
                                Txt("general_topic_only", <<>>))))
    ELSE RouteMessage(ev, c, o)

lambda_handler(ev, c, expected_token, o) ==
    IF verify_telegram_secret_token(ev.token, expected_token) = "TypeError"
    THEN Out("raised", <<>>)
    ELSE IF verify_telegram_secret_token(ev.token, expected_token) = "False"
    THEN Out("401", <<>>)
    ELSE IF ev.kind = "badjson" THEN Out("200", <<>>)
    ELSE IF ~c.ok THEN Out("raised", <<>>)
    ELSE IF ev.kind = "noupdate" THEN Out("200", <<>>)
    ELSE IF ev.kind = "member" THEN HandleMember(ev, c, o)
    ELSE IF ev.kind = "message" THEN HandleMessage(ev, c, o)
    ELSE Out("200", <<>>)

---------------------------------------------------------------------------
(* The deployment: configuration document, secret, inputs *)

T_hi      == <<"h", "i">>
T_slash   == <<"/">>
T_unknown == <<"/", "u">>
T_agent   == <<"/", "a">>
T_static  == <<"/", "h">>
T_both    == <<"/", "o">>
T_newchat == <<"/", "n">>
T_newchat_p == <<"/", "n", " ", "p">>
T_start   == <<"/", "s">>
T_debug   == <<"/", "d">>
T_spaced  == <<" ", "/", "u">>
T_mention == <<"/", "a", "@", "b", " ", "x">>

StrVal(r) == [k |-> "str", type |-> "", response |-> r, handler |-> ""]

StaticVal(r) == [k |-> "dict", type |-> "static", response |-> r, handler |-> ""]

HandlerVal(h) == [k |-> "dict", type |-> "handler", response |-> <<>>, handler |-> h]

StrItem(x) == [str |-> TRUE, s |-> x]

WlInt(n) == [k |-> "int", n |-> n]

WlAll == [k |-> "all", n |-> 0]

\* a TOML boolean in the list: True == 1 and False == 0 in Python
WlBool(b) == [k |-> "bool", n |-> IF b THEN 1 ELSE 0]

\* a string other than 'all'
WlStr == [k |-> "str", n |-> 0]

UserIds == <<7, 8>>

AllowedUser == UserIds[1]

OtherUser == UserIds[2]

\* a configuration with agent commands, static and handler local commands, one
\* token (/o) listed both as agent and as local command, and a one-user whitelist
DeployedDoc ==
    [exists |-> TRUE, utf8 |-> TRUE, parses |-> TRUE,
     agent |-> [t |-> "list", items |-> <<StrItem(T_agent), StrItem(T_both)>>],
     local |-> [t |-> "table",
                entries |-> <<[name |-> <<"h">>, v |-> StrVal(<<"H">>)],
                              [name |-> T_both, v |-> StaticVal(<<"O">>)],
                              [name |-> <<"n">>, v |-> HandlerVal("newchat")],
                              [name |-> <<"s">>, v |-> HandlerVal("start")],
                              [name |-> <<"d">>, v |-> HandlerVal("debug")]>>],
     wl |-> [t |-> "list", items |-> <<WlInt(AllowedUser)>>]]

GoodToken == <<"s">>

Tokens == {None, Some(GoodToken), Some(<<"x">>), Some(<<"U+00E9">>)}

Secrets == {None, Some(GoodToken)}

BaseEvent ==
    [token |-> None, kind |-> "noupdate", old |-> "left", new |-> "left",
     inviter |-> AllowedUser, forum |-> FALSE, perm |-> FALSE, ctype |-> "private",
     thread |-> None, text |-> None, from |-> None, chat |-> 100, mid |-> 1,
     dbg |-> "noenv"]

Statuses == {"left", "kicked", "member", "administrator"}

MemberEvents ==
    {[BaseEvent EXCEPT !.kind = "member", !.ctype = "supergroup", !.old = a, !.new = b,
                       !.inviter = i, !.forum = f, !.perm = p] :
        a \in Statuses, b \in Statuses, i \in {AllowedUser, OtherUser},
        f \in BOOLEAN, p \in BOOLEAN}

DispatchTexts == {T_hi, T_slash, T_unknown, T_agent, T_static, T_both, T_newchat,
                  T_newchat_p, T_start, T_spaced, T_mention}

Senders == {None, Some(AllowedUser), Some(OtherUser)}

\* where a message can come from: a private chat, a plain group, a forum
\* supergroup (General topic: thread absent or 1; another topic: 5)
Surfaces ==
    {[ctype |-> "private", forum |-> FALSE, thread |-> None],
     [ctype |-> "group", forum |-> FALSE, thread |-> None],
     [ctype |-> "supergroup", forum |-> FALSE, thread |-> None],
     [ctype |-> "supergroup", forum |-> TRUE, thread |-> None],
     [ctype |-> "supergroup", forum |-> TRUE, thread |-> Some(1)],
     [ctype |-> "supergroup", forum |-> TRUE, thread |-> Some(5)]}

MessageEvent(sf, x, u) ==
    [BaseEvent EXCEPT !.kind = "message", !.ctype = sf.ctype, !.forum = sf.forum,
                      !.thread = sf.thread, !.text = x, !.from = u]

DebugStores == {"queryfail", "noitem", "nofiles", "files"}

MessageEvents ==
    {MessageEvent(sf, Some(x), u) : sf \in Surfaces, x \in DispatchTexts, u \in Senders}
    \cup {MessageEvent(sf, None, Some(AllowedUser)) : sf \in Surfaces}
    \cup {[MessageEvent(sf, Some(T_debug), Some(AllowedUser)) EXCEPT !.dbg = d] :
             sf \in Surfaces, d \in DebugStores \cup {"noenv"}}

OtherEvents ==
    {[BaseEvent EXCEPT !.kind = k] : k \in {"badjson", "noupdate", "other"}}

WithTokens(E) == {[e EXCEPT !.token = tk] : e \in E, tk \in Tokens}

DispatchEvents == WithTokens(MemberEvents \cup MessageEvents \cup OtherEvents)

\* uuid.uuid4().hex[:8]: a value no earlier enqueue of the run has drawn
uuid4(q) == Len(q) + 1

\* the message_thread_id create_forum_topic returns for the new topic
NewTopic == Head(<<9>>)

\* the oracle under which every call succeeds
CalmOracle == [F |-> {}, sq |-> "ok", u |-> 1, topic |-> NewTopic]

---------------------------------------------------------------------------
(* State machine: webhook invocations *)

MaxQueue == 1

NoWh == [ev |-> BaseEvent, status |-> "none", eff |-> <<>>]

NoProbe == [cmd |-> None, local |-> FALSE, agent |-> FALSE, route |-> "none"]

\* a message accepted by sqs.send_message, as the queue holds it, with what
\* the Worker has done for it so far: requests to the Agent Server (calls),
\* "Request timed out." and "Error: ..." messages (notices), replies that
\* Telegram accepted (replies), whether the request of its first delivery
\* timed out, and whether process_message has returned for it
QueueMessage(m) ==
    [group |-> m.group, dedup_id |-> m.dedup_id, body |-> m.body,
     st |-> "visible", receives |-> 0, calls |-> 0, notices |-> 0, replies |-> 0,
     first_timed_out |-> FALSE, abandoned |-> FALSE, done |-> FALSE]

\* no function of config.py / security.py has been applied yet
NoCall == [fn |-> "none", args |-> <<>>, result |-> <<>>]

\* no consumer invocation is being followed
NoJob ==
    [pc |-> "idle", batch |-> <<>>, pos |-> 0, redelivered |-> FALSE, earlier |-> <<>>,
     handled |-> <<>>,
     agent |-> "none", typing |-> "none", ticked |-> FALSE, then |-> "none",
     rejected |-> "none", request |-> <<>>, tick_thread |-> <<>>, log |-> <<>>]

\* conversation keys of the session store: (chat_id, thread_id)
SessionKeys == {<<"100", th>> : th \in {None, Some("5")}}

\* the gateway has handled no request; the session store is empty
NoHttp ==
    [auth |-> <<>>, body |-> "none", user_message |-> <<>>, chat_id |-> <<>>,
     thread_id |-> <<>>]

NoGateway ==
    [sessions |-> [k \in SessionKeys |-> None], files |-> {},
     req |-> [kind |-> "none", http |-> NoHttp, key |-> <<"100", None>>,
              resume |-> None, calls |-> <<>>,
              status |-> "none", session_id |-> None, before |-> None]]

RECURSIVE Accepted(_)
Accepted(t) ==
    IF t = <<>> THEN <<>>
    ELSE (IF Head(t).op = "sqs_send" /\ Head(t).ok
          THEN <<QueueMessage(Val(Head(t).sqs))>> ELSE <<>>)
         \o Accepted(Tail(t))

InitWith(doc, sec) ==
    /\ raw = doc
    /\ cfg = _load_config(doc)
    /\ secret = sec
    /\ probe = NoProbe
    /\ pending = None
    /\ wh = NoWh
    /\ queue = <<>>
    /\ worker = {}
    /\ dedup = [table |-> FALSE, items |-> {}]
    /\ now = 0
    /\ claims = <<>>
    /\ applied = NoCall
    /\ job = NoJob
    /\ gateway = NoGateway

\* the chat platform posts an update to the webhook
Arrive(E) ==
    /\ pending = None
    /\ wh.status = "none"
    /\ Len(queue) < MaxQueue
    /\ \E ev \in E : pending' = Some(ev)
    /\ UNCHANGED wh
    /\ UNCHANGED <<raw, cfg, secret, probe, queue, worker, dedup, now, claims, applied, job, gateway>>

\* Every way one run of lambda_handler on ev can go: each call to the outside
\* world, when the run reaches it, may succeed or fail (a chat-platform call), or
\* end in any of SqsOutcomes with any uuid suffix (sqs.send_message).  The first
\* n effects of the run under o are decided; the run is repeated with the next
\* call decided each way.
RECURSIVE Runs(_, _, _, _, _)
Runs(ev, c, sec, n, o) ==
    LET r == lambda_handler(ev, c, sec, o)
    IN  IF Len(r.eff) <= n THEN {r}
        ELSE IF r.eff[n + 1].op = "sqs_send"
        THEN UNION {Runs(ev, c, sec, n + 1, [o EXCEPT !.sq = sq]) : sq \in SqsOutcomes}
        ELSE LET j == TgCount(SubSeq(r.eff, 1, n)) + 1
             IN  Runs(ev, c, sec, n + 1, o)
                 \cup Runs(ev, c, sec, n + 1, [o EXCEPT !.F = @ \cup {j}])

\* one run of the producer's lambda_handler on the pending update
WebhookInvoke ==
    /\ pending /= None
    /\ \E r \in Runs(Val(pending), cfg, secret, 0, [CalmOracle EXCEPT !.u = uuid4(queue)]) :
          /\ wh' = [ev |-> Val(pending), status |-> r.status, eff |-> r.eff]
          /\ queue' = queue \o Accepted(r.eff)
    /\ pending' = None
    /\ UNCHANGED <<raw, cfg, secret, probe, worker, dedup, now, claims, applied, job, gateway>>

\* the invocation's response has been delivered to the chat platform
Respond ==
    /\ wh.status /= "none"
    /\ wh' = NoWh
    /\ UNCHANGED <<raw, cfg, secret, probe, pending, queue, worker, dedup, now, claims, applied, job, gateway>>

InitDispatch == \E sec \in Secrets : InitWith(DeployedDoc, sec)

ArriveDispatch == Arrive(DispatchEvents)

NextDispatch == ArriveDispatch \/ WebhookInvoke \/ Respond

SpecDispatch == InitDispatch /\ [][NextDispatch]_vars

---------------------------------------------------------------------------
(* Properties of a webhook invocation (SpecDispatch) *)

Handled == wh.status /= "none"

\* the header does not carry the configured secret
BadToken(ev) ==
    /\ secret /= None /\ Val(secret) /= <<>>
    /\ (ev.token = None \/ Val(ev.token) /= Val(secret))

Sends(t) == {i \in 1..Len(t) : t[i].op = "send_message"}

Enqueues(t) == {i \in 1..Len(t) : t[i].op = "sqs_send"}

\* the private-chat sender is refused by the whitelist
BlockedPrivate(ev) ==
    /\ ev.ctype = "private" /\ ev.from /= None /\ Val(ev.from) /= 0
    /\ ~is_user_allowed(Val(ev.from), cfg.user_whitelist)

InGeneralTopic(ev) ==
    IsGroup(ev) /\ ev.forum /\ (ev.thread = None \/ ev.thread = Some(1))

\* a text message that gets as far as command routing
Routed(ev) ==
    /\ ~BadToken(ev)
    /\ ev.kind = "message" /\ ev.text /= None /\ Val(ev.text) /= <<>>
    /\ ~BlockedPrivate(ev)
    /\ ~(IsGroup(ev) /\ ~ev.forum)
    /\ ~(InGeneralTopic(ev) /\ Head(Val(ev.text)) /= "/")

HasUnknownCommand(ev) ==
    /\ ev.kind = "message"
    /\ extract_command(ev.text) /= None
    /\ Val(extract_command(ev.text)) \notin Range(cfg.agent_commands)
    /\ \A i \in 1..Len(cfg.local_commands) :
           cfg.local_commands[i].cmd /= Val(extract_command(ev.text))

IsHelpReply(e, ev) ==
    /\ e.op = "send_message" /\ e.chat = ev.chat /\ e.thread = ev.thread
    /\ e.reply_to = Some(ev.mid)
    /\ e.text.kind = "unknown_command"
    /\ e.text.agent = cfg.agent_commands
    /\ e.text.local = [i \in 1..Len(cfg.local_commands) |-> cfg.local_commands[i].cmd]

\* C5 (as stated): an invocation that passes secret verification returns 200
\* whatever happens internally, and 401 is returned only when verification fails.
C5_AlwaysAcknowledged ==
    Handled => (IF BadToken(wh.ev) THEN wh.status = "401" ELSE wh.status = "200")

\* an invocation that passed secret verification and in which a
\* chat-platform call failed
C5_FailedCallSeen ==
    Handled /\ ~BadToken(wh.ev) /\ \E i \in 1..Len(wh.eff) : ~wh.eff[i].ok

\* C6 (as stated): an invocation whose secret verification fails returns 401
\* and makes no call to the outside world: no reply, no leave, no handler, no
\* enqueue.
C6_RejectHasNoEffect ==
    (Handled /\ BadToken(wh.ev)) => (wh.status = "401" /\ wh.eff = <<>>)

\* a header value outside ASCII: the comparison raises and the invocation
\* ends without a status
C6_Witness ==
    /\ Handled /\ BadToken(wh.ev) /\ wh.status = "raised" /\ wh.eff = <<>>
    /\ wh.ev.kind = "member" /\ should_leave_group(wh.ev, cfg.user_whitelist)

\* C7 (as stated): when the enqueue fails, whatever the reason, the invocation
\* still returns 200.
C7_EnqueueFailureAcknowledged ==
    (Handled /\ \E i \in Enqueues(wh.eff) : ~wh.eff[i].ok) => wh.status = "200"

\* C8 (as stated): a message whose command is neither an agent command nor a
\* local command gets exactly one reply, the list of commands, and no job.
C8_Original ==
    (Handled /\ ~BadToken(wh.ev) /\ HasUnknownCommand(wh.ev))
        => /\ Cardinality(Sends(wh.eff)) = 1
           /\ \A i \in Sends(wh.eff) : IsHelpReply(wh.eff[i], wh.ev)
           /\ Enqueues(wh.eff) = {}

\* C8 (amended): a message that reaches command routing (secret accepted, sender
\* not refused in a private chat, not a group without topics, not a General-topic
\* text that does not start with '/') and whose command is unknown causes exactly
\* one call, a send of the command list in reply to the message, and no enqueue;
\* the invocation returns 200 whether or not that send succeeds.
C8_UnknownCommandHelp ==
    (Handled /\ Routed(wh.ev) /\ HasUnknownCommand(wh.ev))
        => /\ wh.status = "200"
           /\ Len(wh.eff) = 1
           /\ IsHelpReply(wh.eff[1], wh.ev)

C8_Witness ==
    /\ Handled /\ Routed(wh.ev) /\ HasUnknownCommand(wh.ev)
    /\ Len(wh.eff) = 1 /\ wh.eff[1].ok /\ wh.eff[1].text.agent /= <<>>

SenderAllowed(ev) ==
    ev.from /= None /\ is_user_allowed(Val(ev.from), cfg.user_whitelist)

IsPlainText(ev) ==
    /\ ev.kind = "message" /\ ev.text /= None /\ Val(ev.text) /= <<>>
    /\ extract_command(ev.text) = None

\* C9 (as stated): a non-command text from an allowed sender puts exactly one
\* job on the queue, with the message text, and no reply is sent.
C9_Original ==
    (Handled /\ ~BadToken(wh.ev) /\ IsPlainText(wh.ev) /\ SenderAllowed(wh.ev))
        => /\ Len(Accepted(wh.eff)) = 1
           /\ Accepted(wh.eff)[1].body.text = wh.ev.text
           /\ Sends(wh.eff) = {}

\* C9 (amended): a non-command text from an allowed sender that reaches command
\* routing (private chat, or a forum group outside the General topic unless the
\* text starts with '/') causes exactly one call, an enqueue attempt of a job with
\* the message's text, chat, thread and id; no reply is sent, and the job is on
\* the queue exactly when that attempt succeeds.
C9_PlainTextEnqueued ==
    (Handled /\ Routed(wh.ev) /\ IsPlainText(wh.ev) /\ SenderAllowed(wh.ev))
        => /\ wh.status = "200"
           /\ Len(wh.eff) = 1
           /\ wh.eff[1].op = "sqs_send"
           /\ Val(wh.eff[1].sqs).body.text = wh.ev.text
           /\ Val(wh.eff[1].sqs).body.chat_id = wh.ev.chat
           /\ Val(wh.eff[1].sqs).body.thread_id = wh.ev.thread
           /\ Val(wh.eff[1].sqs).body.message_id = wh.ev.mid
           /\ Len(Accepted(wh.eff)) = (IF wh.eff[1].ok THEN 1 ELSE 0)

C9_Witness ==
    /\ Handled /\ Routed(wh.ev) /\ IsPlainText(wh.ev) /\ SenderAllowed(wh.ev)
    /\ wh.ev.text = Some(T_hi)
    /\ Len(queue) > 0 /\ queue[Len(queue)].body.text = Some(T_hi)

\* a private-chat message that carries a sender id the whitelist does not hold
UnlistedPrivateSender(ev) ==
    /\ ev.kind = "message" /\ ev.ctype = "private" /\ ev.from /= None
    /\ \A i \in 1..Len(cfg.user_whitelist) :
           /\ cfg.user_whitelist[i] /= WlAll
           /\ cfg.user_whitelist[i] /= WlInt(Val(ev.from))

\* C16: a private-chat message whose sender is not allowed by the whitelist is
\* dropped silently: the invocation makes no call to the outside world (no
\* reply, no handler, no enqueue) and returns 200.
C16_UnlistedPrivateDropped ==
    (Handled /\ ~BadToken(wh.ev) /\ UnlistedPrivateSender(wh.ev))
        => (wh.status = "200" /\ wh.eff = <<>>)

\* an unlisted sender asks for a new chat in private
C16_Witness ==
    /\ Handled /\ ~BadToken(wh.ev) /\ UnlistedPrivateSender(wh.ev)
    /\ wh.ev.text = Some(T_newchat)
    /\ wh.status = "200" /\ wh.eff = <<>>

\* the bot was added to a group: it was outside and is now a member
AddedToGroup(ev) ==
    /\ ev.kind = "member"
    /\ ev.old \in {"left", "kicked"} /\ ev.new \in {"member", "administrator"}

\* the whitelist allows the user: it holds "all" or the user's id
Listed(user) ==
    \E i \in 1..Len(cfg.user_whitelist) :
        cfg.user_whitelist[i] \in {WlAll, WlInt(user)}

OpsOf(t) == {t[i].op : i \in 1..Len(t)}

\* C27: a membership-change event never enqueues a job; when the bot was added
\* to a group by an inviter the whitelist does not allow, the only call of the
\* invocation is leave_chat for that group (no join or welcome message), and
\* when the inviter is allowed no leave_chat is made.
C27_MemberEventLeavesOrStays ==
    (Handled /\ ~BadToken(wh.ev) /\ wh.ev.kind = "member") =>
        /\ "sqs_send" \notin OpsOf(wh.eff)
        /\ (AddedToGroup(wh.ev) /\ ~Listed(wh.ev.inviter)) =>
               /\ Len(wh.eff) = 1
               /\ wh.eff[1].op = "leave_chat" /\ wh.eff[1].chat = wh.ev.chat
        /\ Listed(wh.ev.inviter) => "leave_chat" \notin OpsOf(wh.eff)

\* a user outside the whitelist brought the bot back into a group it had been
\* removed from, and the bot left
C27_Witness ==
    /\ Handled /\ ~BadToken(wh.ev) /\ wh.ev.kind = "member"
    /\ wh.ev.old = "kicked" /\ wh.ev.new = "member" /\ wh.ev.inviter = OtherUser
    /\ Len(wh.eff) = 1 /\ wh.eff[1].op = "leave_chat" /\ wh.eff[1].ok
    /\ wh.status = "200"

\* a text message in a group that has no topics
InGroupWithoutTopics(ev) ==
    /\ ev.kind = "message" /\ ev.text /= None /\ Val(ev.text) /= <<>>
    /\ ev.ctype \in {"group", "supergroup"} /\ ~ev.forum

\* a text message in the General topic of a forum group (thread id absent or
\* 1) whose text does not begin with '/'
PlainInGeneral(ev) ==
    /\ ev.kind = "message" /\ ev.text /= None /\ Val(ev.text) /= <<>>
    /\ ev.ctype \in {"group", "supergroup"} /\ ev.forum
    /\ ev.thread \in {None, Some(1)}
    /\ Head(Val(ev.text)) /= "/"

\* the only call of the invocation is the notice that points to /newchat,
\* sent to the thread of the message in reply to it
OnlyGeneralNotice(t, ev) ==
    /\ Len(t) = 1
    /\ t[1].op = "send_message" /\ t[1].chat = ev.chat /\ t[1].thread = ev.thread
    /\ t[1].reply_to = Some(ev.mid) /\ t[1].text.kind = "general_topic_only"

\* C28 (as stated): a message in a group without topics, or a non-command
\* message in the General topic of a forum group, yields one instructional
\* reply and no job, whatever command the text holds.
C28_Original ==
    (Handled /\ ~BadToken(wh.ev)
        /\ (InGroupWithoutTopics(wh.ev) \/ PlainInGeneral(wh.ev))) =>
        /\ Cardinality(Sends(wh.eff)) = 1
        /\ Enqueues(wh.eff) = {}

\* C28 (amended): a message in a group without topics is dropped with no call
\* at all, whatever command its text holds; a non-command message in the
\* General topic of a forum group yields exactly one call, the instructional
\* reply; neither enqueues a job.
C28_SurfaceChecksBeforeRouting ==
    (Handled /\ ~BadToken(wh.ev)) =>
        /\ InGroupWithoutTopics(wh.ev) => wh.eff = <<>> /\ wh.status = "200"
        /\ PlainInGeneral(wh.ev) => OnlyGeneralNotice(wh.eff, wh.ev)

\* a plain message in the General topic (thread id 1) got the notice
C28_Witness ==
    /\ Handled /\ ~BadToken(wh.ev) /\ PlainInGeneral(wh.ev)
    /\ wh.ev.thread = Some(1)
    /\ OnlyGeneralNotice(wh.eff, wh.ev) /\ wh.eff[1].ok /\ wh.status = "200"

\* the entries of the local command table that answer the command of ev with
\* a static text
StaticEntries(ev) ==
    {i \in 1..Len(cfg.local_commands) :
        /\ ev.kind = "message" /\ extract_command(ev.text) /= None
        /\ cfg.local_commands[i].cmd = Val(extract_command(ev.text))
        /\ cfg.local_commands[i].type = "static"}

\* the only call of the invocation is the static text of the command, sent to
\* the thread of the message in reply to it
OnlyStaticReply(t, ev) ==
    /\ Len(t) = 1
    /\ t[1].op = "send_message" /\ t[1].chat = ev.chat /\ t[1].thread = ev.thread
    /\ t[1].reply_to = Some(ev.mid) /\ t[1].text.kind = "static"
    /\ \A i \in StaticEntries(ev) : t[1].text.body = cfg.local_commands[i].response

\* C29 (as stated): every message whose command is a local-static command is
\* answered with the configured static text and enqueues no job.
C29_Original ==
    (Handled /\ ~BadToken(wh.ev) /\ StaticEntries(wh.ev) /= {})
        => OnlyStaticReply(wh.eff, wh.ev)

\* C29 (amended): a message that reaches command routing and whose command is
\* a local-static command causes exactly one call, a send of the configured
\* static text in reply to the message, and no enqueue, also when the command
\* is listed as an agent command; the invocation returns 200 whether or not
\* that send succeeds.
C29_StaticAnsweredLocally ==
    (Handled /\ Routed(wh.ev) /\ StaticEntries(wh.ev) /= {})
        => /\ OnlyStaticReply(wh.eff, wh.ev)
           /\ wh.status = "200"

\* /o is both an agent command and a static local command; the send of its
\* static text failed
C29_Witness ==
    /\ Handled /\ Routed(wh.ev) /\ wh.ev.text = Some(T_both)
    /\ T_both \in Range(cfg.agent_commands)
    /\ OnlyStaticReply(wh.eff, wh.ev) /\ wh.eff[1].text.body = <<"O">>
    /\ ~wh.eff[1].ok /\ wh.status = "200"

\* the command of the message is /newchat
HasNewchat(ev) ==
    ev.kind = "message" /\ extract_command(ev.text) = Some(T_newchat)

\* the topic was created and the confirmation that names it was sent to the
\* thread of the message, in reply to it: the first two calls, both successful
CreatedThenConfirmed(t, ev) ==
    /\ Len(t) >= 2
    /\ t[1].op = "create_forum_topic" /\ t[1].chat = ev.chat /\ t[1].ok
    /\ t[2].op = "send_message" /\ t[2].ok
    /\ t[2].chat = ev.chat /\ t[2].thread = ev.thread /\ t[2].reply_to = Some(ev.mid)
    /\ t[2].text = Txt("newchat_created", <<NewTopic>>)

\* C30: whenever the /newchat handler hands a job to the queue, it has first
\* created the topic and then sent the confirmation naming that topic into the
\* thread of the message; the job carries the new topic as thread id, the text
\* after the command as text, and the id of the message.  When the creation
\* or the confirmation fails, no job is handed to the queue.
C30_NewchatJobAfterConfirmation ==
    (Handled /\ HasNewchat(wh.ev)) =>
        /\ \A i \in Enqueues(wh.eff) :
               /\ i = 3 /\ CreatedThenConfirmed(wh.eff, wh.ev)
               /\ Val(wh.eff[i].sqs).body.thread_id = Some(NewTopic)
               /\ Val(wh.ev.text)
                      = T_newchat \o <<" ">> \o Val(Val(wh.eff[i].sqs).body.text)
               /\ Val(wh.eff[i].sqs).body.message_id = wh.ev.mid
               /\ Val(wh.eff[i].sqs).body.chat_id = wh.ev.chat
        /\ (\E k \in 1..Len(wh.eff) :
                /\ k <= 2 /\ ~wh.eff[k].ok
                /\ wh.eff[1].op = "create_forum_topic") => Enqueues(wh.eff) = {}

\* "/n p" in the General topic: topic created, confirmation sent, job queued
C30_Witness ==
    /\ Handled /\ HasNewchat(wh.ev) /\ wh.ev.text = Some(T_newchat_p)
    /\ CreatedThenConfirmed(wh.eff, wh.ev)
    /\ Len(wh.eff) = 3 /\ wh.eff[3].op = "sqs_send" /\ wh.eff[3].ok
    /\ Len(queue) = 1 /\ queue[1].body.thread_id = Some(NewTopic)
    /\ queue[1].body.text = Some(<<"p">>)

\* something other than whitespace follows the first word of the text
HasPrompt(text) ==
    \E h, i, j \in 1..Len(text) :
        /\ h < i /\ i < j
        /\ text[h] \notin Whitespace /\ text[i] \in Whitespace
        /\ text[j] \notin Whitespace

\* the /newchat handler runs on the message
NewchatHandled(ev) == Routed(ev) /\ HasNewchat(ev)

\* C31: the /newchat handler calls create_forum_topic only for a command in
\* the General topic (thread id absent or 1) that has a prompt after the
\* command; in every other case the invocation makes exactly one call, the
\* warning or the usage reply, and neither creates a topic nor enqueues a job.
C31_TopicOnlyFromGeneralWithPrompt ==
    (Handled /\ NewchatHandled(wh.ev)) =>
        IF wh.ev.thread \in {None, Some(1)} /\ HasPrompt(Val(wh.ev.text))
        THEN wh.eff[1].op = "create_forum_topic"
        ELSE /\ Len(wh.eff) = 1
             /\ wh.eff[1].op = "send_message" /\ wh.eff[1].chat = wh.ev.chat
             /\ wh.eff[1].thread = wh.ev.thread
             /\ wh.eff[1].text.kind =
                    IF wh.ev.thread \in {None, Some(1)}
                    THEN "newchat_usage" ELSE "newchat_general_only"

\* "/n p" sent in topic 5: the warning, no topic
C31_Witness ==
    /\ Handled /\ NewchatHandled(wh.ev)
    /\ wh.ev.text = Some(T_newchat_p) /\ wh.ev.thread = Some(5)
    /\ Len(wh.eff) = 1 /\ wh.eff[1].text.kind = "newchat_general_only"
    /\ wh.eff[1].ok

---------------------------------------------------------------------------
(* consumer.py: the SQS FIFO queue and the Worker *)

MaxJobs == 2

MaxFailures == 1

\* SQS FIFO: a message can be received when it is visible, no message of its
\* group is in flight, and every earlier undeleted message of its group comes
\* with it; a batch holds its messages in queue order.
Live(i) == queue[i].st /= "deleted"

GroupInFlight(g) == \E i \in 1..Len(queue) : queue[i].group = g /\ queue[i].st = "inflight"

\* deliveries that ended with the invocation failing
RECURSIVE FailedDeliveries(_)
FailedDeliveries(q) ==
    IF q = <<>> THEN 0
    ELSE (IF Head(q).st = "visible" THEN Head(q).receives
          ELSE IF Head(q).receives > 0 THEN Head(q).receives - 1 ELSE 0)
         + FailedDeliveries(Tail(q))

\* a call of the Worker may fail while the run has failures left
MayFail == FailedDeliveries(queue) < MaxFailures

Receivable(S) ==
    /\ S /= {}
    /\ \A i \in S :
          /\ queue[i].st = "visible"
          /\ ~GroupInFlight(queue[i].group)
          /\ \A j \in 1..(i - 1) :
                (queue[j].group = queue[i].group /\ Live(j)) => j \in S

RECURSIVE Sorted(_)
Sorted(S) ==
    IF S = {} THEN <<>>
    ELSE LET m == CHOOSE x \in S : \A y \in S : x <= y
         IN  <<m>> \o Sorted(S \ {m})

Current(inv) == inv.batch[inv.pos]

\* mutant: the text override of the job is ignored
EffectiveText_original(body) == body.update.text

\* process_message: the effective text and thread of a job
EffectiveText(body) == OrStr(body.text, body.update.text)

\* mutant: the thread override of the job is ignored
EffectiveThread_ignores_override(body) == body.update.thread

EffectiveThread(body) == OrInt(body.thread_id, body.update.thread)

\* mutant: the reply always refers to the original message
ReplyToId_always(body) == Some(body.update.mid)

\* message.message_id if thread_id == message.message_thread_id else None
ReplyToId(body) ==
    IF EffectiveThread(body) = body.update.thread THEN Some(body.update.mid) ELSE None

\* a running invocation of the consumer's lambda_handler: its records, the
\* record process_message is working on, and where process_message is (waiting
\* for the Agent Server with the typing task running, or about to send the
\* reply)
Invocation(batch) ==
    [batch |-> batch, pos |-> 1, pc |-> "agent", typing |-> TRUE]

\* process_message up to the request to the Agent Server, for record i
Started(q, i) == [q EXCEPT ![i].calls = @ + 1]

\* the consumer is invoked with a batch of records and starts on the first
Receive ==
    /\ \E S \in SUBSET (1..Len(queue)) :
          LET q == [i \in 1..Len(queue) |->
                       IF i \in S
                       THEN [queue[i] EXCEPT !.st = "inflight", !.receives = @ + 1]
                       ELSE queue[i]]
          IN  /\ Receivable(S)
              /\ queue' = Started(q, Sorted(S)[1])
              /\ worker' = worker \cup {Invocation(Sorted(S))}
    /\ UNCHANGED <<raw, cfg, secret, probe, pending, wh, dedup, now, claims, applied, job, gateway>>

\* lambda_handler's except: the invocation fails and its records become
\* visible again
FailBatch(inv, q) ==
    /\ queue' = [i \in 1..Len(q) |->
                    IF i \in Range(inv.batch) THEN [q[i] EXCEPT !.st = "visible"]
                    ELSE q[i]]
    /\ worker' = worker \ {inv}

\* process_message returned: the loop goes on with the next record, or
\* lambda_handler returns 200 and the records are deleted
NextRecord(inv, q) ==
    LET q1 == [q EXCEPT ![Current(inv)].done = TRUE]
    IN  IF inv.pos < Len(inv.batch)
        THEN /\ queue' = Started(q1, inv.batch[inv.pos + 1])
             /\ worker' = (worker \ {inv})
                             \cup {[Invocation(inv.batch) EXCEPT !.pos = inv.pos + 1]}
        ELSE /\ queue' = [i \in 1..Len(q1) |->
                             IF i \in Range(inv.batch)
                             THEN [q1[i] EXCEPT !.st = "deleted"]
                             ELSE q1[i]]
             /\ worker' = worker \ {inv}

AgentOutcomes == {"ok", "is_error", "timeout", "error"}

\* the request resolves.  A result (the response, or is_error): the typing
\* task is cancelled.  httpx.TimeoutException: "Request timed out." is sent,
\* the exception is raised again, the typing task is cancelled on the way out;
\* the client has stopped waiting, the Agent Server invocation it started is
\* left to itself (abandoned) and ends when it ends.
\* Another exception: "Error: ..." is sent inside try/except, the typing task
\* is cancelled and the default result, an is_error one, stays.
AgentReturns(inv) ==
    /\ inv.pc = "agent"
    /\ \E out \in AgentOutcomes :
          LET i == Current(inv)
              replying == [inv EXCEPT !.pc = "reply", !.typing = FALSE]
          IN  CASE out = "timeout" ->
                       /\ MayFail
                       /\ FailBatch(inv, [queue EXCEPT ![i].notices = @ + 1,
                                                       ![i].abandoned = TRUE,
                                                       ![i].first_timed_out =
                                                           @ \/ queue[i].receives = 1])
                [] out = "error" ->
                       /\ queue' = [queue EXCEPT ![i].notices = @ + 1]
                       /\ worker' = (worker \ {inv}) \cup {replying}
                [] OTHER ->
                       /\ queue' = queue
                       /\ worker' = (worker \ {inv}) \cup {replying}
    /\ UNCHANGED <<raw, cfg, secret, probe, pending, wh, dedup, now, claims, applied, job, gateway>>

\* an Agent Server invocation whose client timed out comes to its end
GatewayEnds ==
    /\ \E i \in 1..Len(queue) :
          /\ queue[i].abandoned
          /\ queue' = [queue EXCEPT ![i].abandoned = FALSE]
    /\ UNCHANGED <<raw, cfg, secret, probe, pending, wh, worker, dedup, now, claims, applied, job, gateway>>

ReplyOutcomes == {"ok", "parse_ok", "parse_fail", "bad_request", "fail"}

\* the BadRequest caught at `except BadRequest as e`, if any
BadRequestOf(outcome) ==
    CASE outcome \in {"parse_ok", "parse_fail"} -> "parse entities"
      [] outcome = "bad_request" -> "other"
      [] OTHER -> "none"

\* the reply (the response, or "Agent error: ..." when is_error) is sent as
\* MarkdownV2; on a BadRequest about entities it is sent again as plain text;
\* anything else raised propagates
Reply(inv) ==
    /\ inv.pc = "reply"
    /\ \E out \in ReplyOutcomes :
          IF out \in {"ok", "parse_ok"}
          THEN NextRecord(inv, [queue EXCEPT ![Current(inv)].replies = @ + 1])
          ELSE MayFail /\ FailBatch(inv, queue)
    /\ UNCHANGED <<raw, cfg, secret, probe, pending, wh, dedup, now, claims, applied, job, gateway>>

\* updates the producer receives while the Worker runs: text messages of an
\* allowed user in two topics of one forum
PipelineEvents ==
    {[MessageEvent([ctype |-> "supergroup", forum |-> TRUE, thread |-> Some(th[1])],
                   Some(T_hi), Some(AllowedUser)) EXCEPT !.mid = th[2]] :
        th \in {<<5, 1>>, <<5, 2>>, <<6, 1>>}}

\* what lambda_handler appends to the queue for these updates under the
\* deployed configuration, over every outcome of its calls (the empty
\* sequence when the enqueue fails)
DeployedCfg == _load_config(DeployedDoc)

ProducerOutputs ==
    [u \in 1..MaxJobs |->
        UNION {{Accepted(r.eff) :
                   r \in Runs(ev, DeployedCfg, None, 0, [CalmOracle EXCEPT !.u = u])} :
                  ev \in PipelineEvents}]

\* a whole webhook invocation: the update arrives, lambda_handler runs, the
\* response goes back
Webhook ==
    /\ Len(queue) < MaxJobs
    /\ cfg = DeployedCfg /\ secret = None
    /\ \E jobs \in ProducerOutputs[uuid4(queue)] : queue' = queue \o jobs
    /\ UNCHANGED <<raw, cfg, secret, probe, pending, wh, worker, dedup, now, claims, applied, job, gateway>>

InitPipeline == InitWith(DeployedDoc, None)

NextPipeline ==
    \/ Webhook
    \/ Receive
    \/ \E inv \in worker : AgentReturns(inv)
    \/ \E inv \in worker : Reply(inv)
    \/ GatewayEnds

SpecPipeline == InitPipeline /\ [][NextPipeline]_vars

---------------------------------------------------------------------------
(* Properties of the queue and the Worker (SpecPipeline) *)

SameMessage(i, j) ==
    /\ queue[i].body.chat_id = queue[j].body.chat_id
    /\ queue[i].body.message_id = queue[j].body.message_id

SameConversation(i, j) ==
    /\ queue[i].body.chat_id = queue[j].body.chat_id
    /\ queue[i].body.thread_id = queue[j].body.thread_id

\* process_message is working on job i
InProgress(i) == \E inv \in worker : Current(inv) = i

RECURSIVE SumOver(_, _)
SumOver(f, S) ==
    IF S = {} THEN 0
    ELSE LET x == CHOOSE y \in S : TRUE IN f[x] + SumOver(f, S \ {x})

\* requests to the Agent Server, and replies, over every delivery of the
\* message of job i
CallsFor(i) ==
    SumOver([j \in 1..Len(queue) |-> queue[j].calls],
            {j \in 1..Len(queue) : SameMessage(i, j)})

RepliesFor(i) ==
    SumOver([j \in 1..Len(queue) |-> queue[j].replies],
            {j \in 1..Len(queue) : SameMessage(i, j)})

\* C1: when the queue delivers the same job twice (same chat id and message
\* id), the Worker calls the Agent Server at most once for it and one reply
\* is sent.
C1_DeliveredTwiceHandledOnce ==
    \A i \in 1..Len(queue) : CallsFor(i) <= 1 /\ RepliesFor(i) <= 1

\* a job was delivered a second time
C1_Redelivered == \E i \in 1..Len(queue) : queue[i].receives >= 2

\* C3: of two jobs enqueued with the same chat id and thread id, the Worker
\* has finished the earlier one before it starts the later one, also when the
\* earlier one is retried, and never works on both at once.
C3_SameThreadInOrder ==
    \A i, j \in 1..Len(queue) :
        (i < j /\ SameConversation(i, j)) =>
            /\ queue[j].calls > 0 => queue[i].done
            /\ ~(InProgress(i) /\ InProgress(j))

\* the earlier job of a thread was retried and then finished, and the later
\* one is being worked on
C3_Witness ==
    \E i, j \in 1..Len(queue) :
        /\ i < j /\ SameConversation(i, j)
        /\ queue[i].receives >= 2 /\ queue[i].done
        /\ InProgress(j)

\* jobs of different threads are worked on at the same time
C3_OtherThreadsConcurrent ==
    \E i, j \in 1..Len(queue) :
        ~SameConversation(i, j) /\ InProgress(i) /\ InProgress(j)

\* C4: after a job's first attempt ended in a timeout of the Agent Server
\* request, a redelivery of the job makes no second request and sends nothing
\* more to the user.
C4_RetryAfterTimeoutSuppressed ==
    \A i \in 1..Len(queue) :
        queue[i].first_timed_out =>
            queue[i].calls <= 1 /\ queue[i].notices <= 1 /\ queue[i].replies = 0

\* a job whose first attempt timed out was delivered again
C4_RedeliveredAfterTimeout ==
    \E i \in 1..Len(queue) : queue[i].first_timed_out /\ queue[i].receives >= 2

\* the Worker is waiting for the Agent Server's answer to job i
Requesting(i) == \E inv \in worker : Current(inv) = i /\ inv.pc = "agent"

\* the Agent Server invocations in progress for the conversation of job i:
\* those a Worker is waiting for and those whose Worker has timed out
ServingConversation(i) ==
    {<<j, "awaited">> : j \in {k \in 1..Len(queue) : SameConversation(i, k) /\ Requesting(k)}}
    \cup
    {<<j, "abandoned">> : j \in {k \in 1..Len(queue) : SameConversation(i, k)
                                                        /\ queue[k].abandoned}}

\* C35 (as stated): at any time at most one Agent Server invocation is in
\* progress for a conversation key (chat id and thread id), also when a job
\* is delivered again after the Worker's request timed out.
C35_OneGatewayInvocationPerKey ==
    \A i \in 1..Len(queue) : Cardinality(ServingConversation(i)) <= 1

\* the request of a job timed out, the job was delivered again, and its
\* second request is under way while the invocation of the first has not ended
C35_RetryOverlapsAbandonedCall ==
    \E i \in 1..Len(queue) :
        /\ queue[i].first_timed_out /\ queue[i].abandoned
        /\ queue[i].receives = 2 /\ Requesting(i)

---------------------------------------------------------------------------
(* handler.py: the enqueues of successive webhook invocations (SpecEnqueue) *)

MaxEnqueues == 2

\* agent commands of an allowed user in two forums (chat ids 100 and -100), in
\* the General topic (thread id absent or 1) and in topic 5
EnqueueEvents ==
    {[MessageEvent([ctype |-> "supergroup", forum |-> TRUE, thread |-> th],
                   Some(T_agent), Some(AllowedUser)) EXCEPT !.chat = c, !.mid = m] :
        c \in {100, -100}, th \in {None, Some(1), Some(5)}, m \in {1, 2}}

\* what lambda_handler appends to the queue for these updates, over every
\* outcome of its calls; u is the suffix uuid4 draws
EnqueueOutputs ==
    [u \in 1..MaxEnqueues |->
        UNION {{Accepted(r.eff) :
                   r \in Runs(ev, DeployedCfg, None, 0, [CalmOracle EXCEPT !.u = u])} :
                  ev \in EnqueueEvents}]

\* one webhook invocation after another, nothing consumed in between
Enqueue ==
    /\ Len(queue) < MaxEnqueues
    /\ cfg = DeployedCfg /\ secret = None
    /\ \E jobs \in EnqueueOutputs[uuid4(queue)] : queue' = queue \o jobs
    /\ UNCHANGED <<raw, cfg, secret, probe, pending, wh, worker, dedup, now, claims, applied, job, gateway>>

InitEnqueue == InitWith(DeployedDoc, None)

NextEnqueue == Enqueue

SpecEnqueue == InitEnqueue /\ [][NextEnqueue]_vars

\* characters of two group keys
T_group_5 == <<"1", "0", "0", ":", "5">>
T_group_default == <<"-", "1", "0", "0", ":", "d", "e", "f", "a", "u", "l", "t">>

\* C33: every message on the queue has the group key "<chat_id>:<thread_id>",
\* with "default" for an absent thread id, so two messages have the same key
\* exactly when they have the same chat id and thread id; and the
\* deduplication tokens of two enqueues differ, also for two enqueues of the
\* same chat id and message id.
C33_GroupKeyAndFreshToken ==
    \A i, j \in 1..Len(queue) :
        /\ (queue[i].body.chat_id = 100 /\ queue[i].body.thread_id = Some(5))
               => queue[i].group = T_group_5
        /\ (queue[i].body.chat_id = -100 /\ queue[i].body.thread_id = None)
               => queue[i].group = T_group_default
        /\ (queue[i].group = queue[j].group) <=> SameConversation(i, j)
        /\ i /= j => queue[i].dedup_id /= queue[j].dedup_id

\* one command of the General topic of chat -100 was enqueued twice, under
\* the key "-100:default" and with two tokens
C33_Witness ==
    \E i, j \in 1..Len(queue) :
        /\ i < j /\ SameMessage(i, j) /\ SameConversation(i, j)
        /\ queue[i].dedup_id /= queue[j].dedup_id
        /\ queue[i].group = T_group_default /\ queue[j].group = T_group_default

---------------------------------------------------------------------------
(* The message dedup store: is_message_duplicate, as
   tests/test_message_dedup.py and the specification's Dedup Gate fix it *)

\* ttl - created_at of a dedup item, in seconds
RetentionSeconds == 86400

MaxTicks == 3

MaxClaims == 3

TickSeconds == RetentionSeconds \div 2

MessageKey(chat_id, message_id) == <<chat_id, message_id>>

StoreOutcomes == {"ok", "ProvisionedThroughputExceededException"}

\* mutation: the put carries no attribute_not_exists condition
is_message_duplicate_unconditional(table, items, chat_id, message_id, t, outcome) ==
    LET key == MessageKey(chat_id, message_id)
    IN  IF ~table THEN [result |-> "False", items |-> items]
        ELSE IF outcome /= "ok" THEN [result |-> "raised", items |-> items]
        ELSE [result |-> "False",
              items |-> {x \in items : x.message_key /= key}
                           \cup {[message_key |-> key, created_at |-> t,
                                  ttl |-> t + RetentionSeconds]}]

\* is_message_duplicate(config, chat_id, message_id) at time t: False without
\* a configured table; otherwise one conditional put of
\* {message_key, created_at, ttl}: stored -> False,
\* ConditionalCheckFailedException -> True, another ClientError is raised
is_message_duplicate(table, items, chat_id, message_id, t, outcome) ==
    LET key == MessageKey(chat_id, message_id)
    IN  IF ~table THEN [result |-> "False", items |-> items]
        ELSE IF outcome /= "ok" THEN [result |-> "raised", items |-> items]
        ELSE IF \E x \in items : x.message_key = key
        THEN [result |-> "True", items |-> items]
        ELSE [result |-> "False",
              items |-> items \cup {[message_key |-> key, created_at |-> t,
                                     ttl |-> t + RetentionSeconds]}]

DedupChats == {100}

DedupMessages == {1, 2}

\* one call; the store applies the conditional put atomically, so concurrent
\* calls take effect one after the other in the order of their puts
Claim ==
    /\ Len(claims) < MaxClaims
    /\ \E chat_id \in DedupChats, message_id \in DedupMessages, outcome \in StoreOutcomes :
          LET r == is_message_duplicate(dedup.table, dedup.items, chat_id, message_id,
                                        now, outcome)
          IN  /\ dedup' = [dedup EXCEPT !.items = r.items]
              /\ claims' = Append(claims, [key |-> MessageKey(chat_id, message_id),
                                           at |-> now, result |-> r.result])
    /\ UNCHANGED <<raw, cfg, secret, probe, pending, wh, queue, worker, now, applied, job, gateway>>

Tick ==
    /\ now < MaxTicks * TickSeconds
    /\ now' = now + TickSeconds
    /\ UNCHANGED <<raw, cfg, secret, probe, pending, wh, queue, worker, dedup, claims, applied, job, gateway>>

\* the store deletes an item some time after its ttl has passed
Expire ==
    /\ \E x \in dedup.items :
          /\ x.ttl <= now
          /\ dedup' = [dedup EXCEPT !.items = @ \ {x}]
    /\ UNCHANGED <<raw, cfg, secret, probe, pending, wh, queue, worker, now, claims, applied, job, gateway>>

InitDedup ==
    /\ raw = DeployedDoc
    /\ cfg = _load_config(DeployedDoc)
    /\ secret = None
    /\ probe = NoProbe
    /\ pending = None
    /\ wh = NoWh
    /\ queue = <<>>
    /\ worker = {}
    /\ dedup \in {[table |-> b, items |-> {}] : b \in BOOLEAN}
    /\ now = 0
    /\ claims = <<>>
    /\ applied = NoCall
    /\ job = NoJob
    /\ gateway = NoGateway

NextDedup == Claim \/ Tick \/ Expire

SpecDedup == InitDedup /\ [][NextDedup]_vars

\* an earlier call on the key of call p stored the item less than the
\* retention time before p
ClaimedInWindow(p) ==
    \E q \in 1..(p - 1) :
        /\ claims[q].key = claims[p].key
        /\ claims[q].result = "False"
        /\ claims[p].at < claims[q].at + RetentionSeconds

ClaimedBefore(p) ==
    \E q \in 1..(p - 1) : claims[q].key = claims[p].key /\ claims[q].result = "False"

---------------------------------------------------------------------------
(* Configuration loading and command classification (SpecConfig) *)

MaxEntries == 2

NotAString == [str |-> FALSE, s |-> <<>>]

AgentItems == {StrItem(T_agent), StrItem(T_both), NotAString}

LocalEntries ==
    {[name |-> <<"h">>, v |-> StrVal(<<"H">>)],
     [name |-> T_both, v |-> StaticVal(<<"O">>)],
     [name |-> <<"o">>, v |-> HandlerVal("start")],
     [name |-> <<"a">>, v |-> StaticVal(<<>>)]}

AgentSections ==
    {[t |-> k, items |-> <<>>] : k \in {"missing", "badsection", "notlist"}}
        \cup {[t |-> "list", items |-> x] : x \in SeqsUpTo(AgentItems, MaxEntries)}

LocalSections ==
    {[t |-> k, entries |-> <<>>] : k \in {"missing", "nottable"}}
        \cup {[t |-> "table", entries |-> x] : x \in SeqsUpTo(LocalEntries, MaxEntries)}

\* no configuration file
NoDoc == [DeployedDoc EXCEPT !.exists = FALSE]

WhitelistItems == {WlAll, WlInt(AllowedUser), WlBool(TRUE), WlStr}

\* [security] user_whitelist: the key or the section missing, [security] not
\* a table, the value not a list, or a list
WhitelistSections ==
    {[t |-> k, items |-> <<>>] : k \in {"missing", "badsection", "notlist"}}
        \cup {[t |-> "list", items |-> x] : x \in SeqsUpTo(WhitelistItems, MaxEntries)}

\* the configuration files the loader is run on
ConfigDocs ==
    {NoDoc, [DeployedDoc EXCEPT !.parses = FALSE], [DeployedDoc EXCEPT !.utf8 = FALSE]}
        \cup {[DeployedDoc EXCEPT !.agent = a, !.local = l] :
                 a \in AgentSections, l \in LocalSections}
        \cup {[DeployedDoc EXCEPT !.wl = w] : w \in WhitelistSections}

ProbeTokens == {T_agent, T_both, T_static, T_unknown}

\* the route lambda_handler takes for a command, read off what it does first:
\* the enqueue (agent), the unknown-command message, or a local command's reply
RouteTaken(eff) ==
    IF eff = <<>> THEN "none"
    ELSE IF eff[1].op = "sqs_send" THEN "agent"
    ELSE IF eff[1].text.kind = "unknown_command" THEN "unknown"
    ELSE "local"

\* a configuration file is deployed and _load_config reads it
LoadConfig ==
    /\ raw = NoDoc
    /\ \E doc \in ConfigDocs :
          /\ raw' = doc
          /\ cfg' = _load_config(doc)
    /\ probe' = NoProbe
    /\ UNCHANGED <<secret, pending, wh, queue, worker, dedup, now, claims, applied, job, gateway>>

\* a private message of an allowed user that consists of one command
Classify ==
    /\ cfg.ok
    /\ is_user_allowed(AllowedUser, cfg.user_whitelist)
    /\ \E token \in ProbeTokens :
          LET ev == MessageEvent([ctype |-> "private", forum |-> FALSE, thread |-> None],
                                 Some(token), Some(AllowedUser))
              cmd == extract_command(ev.text)
              r == lambda_handler(ev, cfg, secret, CalmOracle)
          IN  probe' = [cmd |-> cmd,
                        local |-> is_local_command(cfg, cmd),
                        agent |-> is_agent_command(cfg, cmd),
                        route |-> RouteTaken(r.eff)]
    /\ UNCHANGED <<raw, cfg, secret, pending, wh, queue, worker, dedup, now, claims, applied, job, gateway>>

InitConfig == InitWith(NoDoc, None)

NextConfig == LoadConfig \/ Classify

SpecConfig == InitConfig /\ [][NextConfig]_vars

\* C10 (as stated): in a loaded configuration no token is both a local
\* and an agent command
C10_Original ==
    cfg.ok => \A token \in ProbeTokens :
                  ~(is_local_command(cfg, Some(token)) /\ is_agent_command(cfg, Some(token)))

\* C10: for every configuration the loader produces and every command, the
\* Dispatcher takes exactly one of the three routes: local when
\* is_local_command holds, otherwise agent-bound when is_agent_command holds,
\* otherwise unknown.
C10_ExactlyOneRoute ==
    probe.cmd /= None =>
        /\ probe.route \in {"local", "agent", "unknown"}
        /\ probe.route = "local" <=> probe.local
        /\ probe.route = "agent" <=> (probe.agent /\ ~probe.local)
        /\ probe.route = "unknown" <=> (~probe.agent /\ ~probe.local)

\* a command listed both as local and as agent command was routed
C10_Witness == probe.cmd /= None /\ probe.local /\ probe.agent /\ probe.route = "local"

\* the file was read and parsed into a table
Parsed(doc) == doc.exists /\ doc.utf8 /\ doc.parses

\* C24: loading the configuration never fails: a missing or unparseable file
\* gives no agent commands, no local commands and the whitelist "all", and a
\* section of the wrong type gives the default of that section only, the other
\* sections being read as written.
C24_LoadNeverFails ==
    /\ cfg.ok
    /\ ~Parsed(raw) => cfg = DefaultCfg
    /\ Parsed(raw) /\ raw.agent.t /= "list" =>
           /\ cfg.agent_commands = DefaultCfg.agent_commands
           /\ cfg.user_whitelist = <<WlInt(AllowedUser)>>
    /\ Parsed(raw) /\ raw.local.t /= "table" =>
           /\ cfg.local_commands = DefaultCfg.local_commands
           /\ cfg.user_whitelist = <<WlInt(AllowedUser)>>

\* agent_commands holds a value that is not a table: the loader raises
C24_SectionNotATable == Parsed(raw) /\ raw.agent.t = "badsection" /\ ~cfg.ok


---------------------------------------------------------------------------
(* The functions of config.py and security.py applied to arbitrary arguments *)

MaxText == 5

MaxWhitelist == 2

TextAlphabet == {"/", "a", "@", " "}

\* message.text: absent, or any text up to MaxText characters
GuardTexts == {None} \cup {Some(s) : s \in SeqsUpTo(TextAlphabet, MaxText)}

\* the header value and the configured secret: absent, empty, or a string
GuardTokens ==
    {None, Some(<<>>), Some(GoodToken), Some(<<"x">>), Some(GoodToken \o <<"x">>),
     Some(<<"U+00E9">>)}

GuardUsers == Range(UserIds) \cup {NewTopic}

\* a whitelist as config.py hands it over: 'all' and integers, in any order
GuardWhitelists ==
    SeqsUpTo({WlAll} \cup {WlInt(u) : u \in Range(UserIds)}, MaxWhitelist)

GuardStatuses == Statuses \cup {"restricted"}

\* updates with and without my_chat_member
GuardUpdates ==
    {[BaseEvent EXCEPT !.kind = k, !.old = a, !.new = b, !.inviter = i] :
        k \in {"member", "message"}, a \in GuardStatuses, b \in GuardStatuses,
        i \in GuardUsers}

\* the value a caller holds once the function has returned
Applied(fn, args, result) == [fn |-> fn, args |-> args, result |-> result]

ApplyExtractCommand ==
    /\ applied = NoCall
    /\ \E text \in GuardTexts :
           applied' = Applied("extract_command", <<text>>, extract_command(text))
    /\ UNCHANGED <<raw, cfg, secret, probe, pending, wh, queue, worker, dedup, now, claims, job, gateway>>

ApplyVerifySecret ==
    /\ applied = NoCall
    /\ \E request_token \in GuardTokens, expected_token \in GuardTokens :
           applied' = Applied("verify_telegram_secret_token",
                              <<request_token, expected_token>>,
                              verify_telegram_secret_token(request_token, expected_token))
    /\ UNCHANGED <<raw, cfg, secret, probe, pending, wh, queue, worker, dedup, now, claims, job, gateway>>

ApplyIsUserAllowed ==
    /\ applied = NoCall
    /\ \E user_id \in GuardUsers, whitelist \in GuardWhitelists :
           applied' = Applied("is_user_allowed", <<user_id, whitelist>>,
                              is_user_allowed(user_id, whitelist))
    /\ UNCHANGED <<raw, cfg, secret, probe, pending, wh, queue, worker, dedup, now, claims, job, gateway>>

ApplyShouldLeaveGroup ==
    /\ applied = NoCall
    /\ \E update \in GuardUpdates, whitelist \in GuardWhitelists :
           applied' = Applied("should_leave_group", <<update, whitelist>>,
                              should_leave_group(update, whitelist))
    /\ UNCHANGED <<raw, cfg, secret, probe, pending, wh, queue, worker, dedup, now, claims, job, gateway>>

\* the caller drops the value and goes on to its next call
Forget ==
    /\ applied /= NoCall
    /\ applied' = NoCall
    /\ UNCHANGED <<raw, cfg, secret, probe, pending, wh, queue, worker, dedup, now, claims, job, gateway>>

InitGuard == InitWith(DeployedDoc, None)

NextGuard ==
    \/ ApplyExtractCommand
    \/ ApplyVerifySecret
    \/ ApplyIsUserAllowed
    \/ ApplyShouldLeaveGroup
    \/ Forget

SpecGuard == InitGuard /\ [][NextGuard]_vars

---------------------------------------------------------------------------
(* Properties of the applied functions (SpecGuard) *)

\* p is s cut before its first character in stop
IsCut(p, s, stop) ==
    /\ Len(p) <= Len(s) /\ p = SubSeq(s, 1, Len(p))
    /\ \A i \in 1..Len(p) : p[i] \notin stop
    /\ Len(p) < Len(s) => s[Len(p) + 1] \in stop

\* s without its leading and trailing blanks, said without recursion
Trimmed(s) ==
    LET inked == {i \in 1..Len(s) : s[i] /= " "}
    IN  IF inked = {} THEN <<>>
        ELSE SubSeq(s, CHOOSE i \in inked : \A j \in inked : i <= j,
                       CHOOSE i \in inked : \A j \in inked : j <= i)

\* fn has been applied; its arguments are applied.args
Returned(fn) == applied.fn = fn

\* C11 (as stated): a text that does not start with '/', an absent text and
\* an empty text all give None.
C11_Original ==
    Returned("extract_command")
        => LET text == applied.args[1]
           IN  (text = None \/ Val(text) = <<>> \/ Head(Val(text)) /= "/")
                   => applied.result = None

\* C11: a text that does not start with '/' once its surrounding whitespace
\* is trimmed, an absent text and an empty text all give None.
C11_NoPrefixNoCommand ==
    Returned("extract_command")
        => LET text == applied.args[1]
           IN  (text = None \/ Trimmed(Val(text)) = <<>> \/ Head(Trimmed(Val(text))) /= "/")
                   => applied.result = None

\* a text with a '/' further on, which is not a command
C11_Witness ==
    /\ Returned("extract_command") /\ applied.args = <<Some(<<"a", "/", "a">>)>>
    /\ applied.result = None

\* C12: for a text that starts with '/' after trimming, the result is the
\* first whitespace-delimited word cut before its first '@', or None when
\* that leaves nothing or only '/'.
C12_FirstWordCutAtMention ==
    Returned("extract_command")
        => LET text == applied.args[1]
               t == Trimmed(Val(text))
               prefixes(s) == {SubSeq(s, 1, k) : k \in 0..Len(s)}
           IN  (text /= None /\ t /= <<>> /\ Head(t) = "/")
                   => \E w \in prefixes(t) : \E c \in prefixes(w) :
                          /\ IsCut(w, t, {" "}) /\ IsCut(c, w, {"@"})
                          /\ applied.result =
                                 IF c = <<>> \/ c = <<"/">> THEN None ELSE Some(c)

\* the mention suffix and the argument are both removed
C12_Witness ==
    /\ Returned("extract_command")
    /\ applied.args = <<Some(<<"/", "a", "@", " ", "a">>)>>
    /\ applied.result = Some(<<"/", "a">>)

\* C13 (as stated): with no secret configured the result is True for every
\* provided value; with a secret configured and the provided value absent or
\* empty it is False; otherwise it is True exactly when the two are equal.
C13_SecretTruthTable ==
    Returned("verify_telegram_secret_token")
        => LET request_token == applied.args[1]
               expected_token == applied.args[2]
           IN  applied.result =
                   IF expected_token = None \/ Val(expected_token) = <<>> THEN "True"
                   ELSE IF request_token = None \/ Val(request_token) = <<>> THEN "False"
                   ELSE IF Val(request_token) = Val(expected_token) THEN "True"
                   ELSE "False"

\* a header value outside ASCII compared with the configured secret
C13_ComparisonRaises ==
    /\ Returned("verify_telegram_secret_token")
    /\ applied.args = <<Some(<<"U+00E9">>), Some(GoodToken)>>
    /\ applied.result = "TypeError"

AllowedBy(user_id, whitelist) ==
    \/ \E i \in 1..Len(whitelist) : whitelist[i] = WlAll
    \/ \E i \in 1..Len(whitelist) : whitelist[i] = WlInt(user_id)

\* C14: with the wildcard 'all' in the whitelist every sender id is allowed;
\* without it a sender id is allowed exactly when it is a member of the list.
C14_WildcardOrMember ==
    Returned("is_user_allowed")
        => LET user_id == applied.args[1]
               whitelist == applied.args[2]
           IN  /\ WlAll \in Range(whitelist) => applied.result = TRUE
               /\ WlAll \notin Range(whitelist)
                      => (applied.result <=> WlInt(user_id) \in Range(whitelist))

\* a sender that is not listed is allowed by the wildcard
C14_Witness ==
    /\ Returned("is_user_allowed")
    /\ applied.args = <<OtherUser, <<WlInt(AllowedUser), WlAll>> >>
    /\ applied.result = TRUE

\* C15: the result is True exactly when the transition is a join (old status
\* left or kicked, new status member or administrator) and the inviter is not
\* allowed by the whitelist; a non-join transition and an allowed inviter give
\* False.
C15_LeaveIffUnauthorizedJoin ==
    Returned("should_leave_group")
        => LET update == applied.args[1]
               whitelist == applied.args[2]
           IN  applied.result <=>
                   /\ update.kind = "member"
                   /\ update.old \in {"left", "kicked"}
                   /\ update.new \in {"member", "administrator"}
                   /\ ~AllowedBy(update.inviter, whitelist)

\* a bot kicked earlier is added again by an inviter who is not listed
C15_Witness ==
    /\ Returned("should_leave_group")
    /\ applied.args[1].kind = "member"
    /\ applied.args[1].old = "kicked" /\ applied.args[1].new = "member"
    /\ applied.args[1].inviter = OtherUser
    /\ applied.args[2] = <<WlInt(AllowedUser)>>
    /\ applied.result = TRUE

---------------------------------------------------------------------------
(* consumer.py: one invocation of lambda_handler, statement by statement *)

\* job.batch      the records of the invocation
\* job.pos        the record lambda_handler is at
\* job.handled    what became of the records before pos: "skipped" (not JSON),
\*                "ignored" (update without message), "answered"
\* job.log        the calls process_message has made for the record at pos
\* job.agent      how the Agent Server call of that record ended
\* job.typing     the typing task of that record: "none", "running", "joined"
\* job.ticked     whether that task has sent a typing indicator
\* job.then       after the finally block: "reply" or "raise"
\* job.request    the JSON body posted to the Agent Server for that record
\* job.tick_thread  the message_thread_id of the typing indicators sent
\* job.rejected   the BadRequest the formatted reply was answered with: "none",
\*                "parse entities", or "other"
\* job.redelivered  whether the batch has failed before
\* job.earlier    what became of the records in the invocation that failed last

MaxRecords == 2

\* Bodies of queue records.  A well-formed job carries the original update (a
\* message in the General topic or in topic 5) and may override its thread;
\* a job derived from "/n p" may override the text as well (its text field
\* absent, empty, or the prompt).
WorkerJobs ==
    {[update |-> [chat |-> 100, mid |-> 1, thread |-> mt, text |-> Some(T_hi)],
      chat_id |-> 100, message_id |-> 1, text |-> Some(T_hi), thread_id |-> bt,
      has_time |-> TRUE] :
        mt \in {None, Some(5)}, bt \in {None, Some(5), Some(NewTopic)}}
    \cup
    {[update |-> [chat |-> 100, mid |-> 1, thread |-> None, text |-> Some(T_newchat_p)],
      chat_id |-> 100, message_id |-> 1, text |-> t, thread_id |-> Some(NewTopic),
      has_time |-> FALSE] :
        t \in {None, Some(<<>>), Some(<<"p">>)}}

\* kind "badjson":   the body is not JSON (json.loads raises JSONDecodeError)
\* kind "nopayload": a JSON object without the key telegram_update
\* kind "nomessage": the stored update has neither message nor edited_message
\* kind "job":       a job as the producer writes it
WorkerRecords ==
    {[kind |-> k,
      body |-> CHOOSE b \in WorkerJobs : b.thread_id = None /\ b.update.thread = None] :
        k \in {"badjson", "nopayload", "nomessage"}}
    \cup {[kind |-> "job", body |-> b] : b \in WorkerJobs}

WorkerBatches == SeqsUpTo(WorkerRecords, MaxRecords) \ {<<>>}

\* an entry of the log: a call made for a job
Logged(op, body, reply_to, text, ok) ==
    [op |-> op, chat |-> body.update.chat, thread |-> EffectiveThread(body),
     reply_to |-> reply_to, text |-> text, ok |-> ok]

\* mutant: the typing task is left running
CancelAndJoin_skipped(task) == task

\* typing_task.cancel(); await typing_task
CancelAndJoin(task) == IF task = "running" THEN "joined" ELSE task

\* the loop of lambda_handler goes on to the next record
NextOf(j, outcome) ==
    [j EXCEPT !.pc = "loads", !.pos = @ + 1, !.handled = Append(@, outcome)]

\* str() of the ids in use
IntStr(n) ==
    CASE n = 100 -> "100" [] n = 1 -> "1" [] n = 5 -> "5" [] n = NewTopic -> "9"
      [] OTHER -> "?"

\* the json of call_agent_server: user_message, str(chat_id), and
\* str(thread_id) if thread_id else None
AgentRequest(body) ==
    [user_message |-> EffectiveText(body),
     chat_id |-> IntStr(body.update.chat),
     thread_id |-> IF TruthyInt(EffectiveThread(body))
                   THEN Some(IntStr(Val(EffectiveThread(body)))) ELSE None]

\* SQS hands a batch to the consumer
Invoke ==
    /\ job.pc = "idle"
    /\ \E batch \in WorkerBatches :
           job' = [NoJob EXCEPT !.pc = "loads", !.batch = batch, !.pos = 1]
    /\ UNCHANGED <<raw, cfg, secret, probe, pending, wh, queue, worker, dedup, now, claims, applied, gateway>>

\* for record in event['Records']: json.loads(record['body']); a body that is
\* not JSON is logged and skipped; after the last record 200 is returned
Loads ==
    /\ job.pc = "loads"
    /\ job' = IF job.pos > Len(job.batch) THEN [job EXCEPT !.pc = "returned"]
              ELSE IF job.batch[job.pos].kind = "badjson" THEN NextOf(job, "skipped")
              ELSE [job EXCEPT !.pc = "de_json", !.agent = "none", !.typing = "none",
                               !.ticked = FALSE, !.then = "none", !.rejected = "none",
                               !.request = None, !.tick_thread = None,
                               !.log = <<>>]
    /\ UNCHANGED <<raw, cfg, secret, probe, pending, wh, queue, worker, dedup, now, claims, applied, gateway>>

\* process_message up to create_task: message_data['telegram_update'] raises
\* KeyError when the key is missing; an update without a message returns
Reconstruct ==
    /\ job.pc = "de_json"
    /\ job' = IF job.batch[job.pos].kind = "nopayload" THEN [job EXCEPT !.pc = "raised"]
              ELSE IF job.batch[job.pos].kind = "nomessage" THEN NextOf(job, "ignored")
              ELSE [job EXCEPT !.pc = "call", !.typing = "running",
                       !.request = Some(AgentRequest(job.batch[job.pos].body)),
                       !.log = <<Logged("agent_call", job.batch[job.pos].body, None,
                                        "", TRUE)>>]
    /\ UNCHANGED <<raw, cfg, secret, probe, pending, wh, queue, worker, dedup, now, claims, applied, gateway>>

\* keep_typing: a send_chat_action, its failure ignored
TypingTick ==
    /\ job.typing = "running"
    /\ job' = [job EXCEPT !.ticked = TRUE,
                          !.tick_thread = Some(EffectiveThread(job.batch[job.pos].body))]
    /\ UNCHANGED <<raw, cfg, secret, probe, pending, wh, queue, worker, dedup, now, claims, applied, gateway>>

\* result = await call_agent_server(): a result, httpx.TimeoutException, or
\* any other exception
AgentCallEnds ==
    /\ job.pc = "call"
    /\ \E outcome \in AgentOutcomes :
           job' = [job EXCEPT !.agent = outcome,
                              !.pc = CASE outcome = "timeout" -> "timeout_notice"
                                       [] outcome = "error" -> "error_notice"
                                       [] OTHER -> "finally",
                              !.then = IF outcome \in {"ok", "is_error"}
                                       THEN "reply" ELSE "none"]
    /\ UNCHANGED <<raw, cfg, secret, probe, pending, wh, queue, worker, dedup, now, claims, applied, gateway>>

\* except httpx.TimeoutException: send "Request timed out.", then raise; the
\* send is not protected, and either way an exception leaves the handler
TimeoutNotice ==
    /\ job.pc = "timeout_notice"
    /\ \E ok \in BOOLEAN :
           job' = [job EXCEPT !.pc = "finally", !.then = "raise",
                      !.log = Append(@, Logged("send_message", job.batch[job.pos].body,
                                              None, "Request timed out.", ok))]
    /\ UNCHANGED <<raw, cfg, secret, probe, pending, wh, queue, worker, dedup, now, claims, applied, gateway>>

\* except Exception: send "Error: " + str(e)[:200] inside try/except, do not
\* re-raise; result keeps its default (is_error)
ErrorNotice ==
    /\ job.pc = "error_notice"
    /\ \E ok \in BOOLEAN :
           job' = [job EXCEPT !.pc = "finally", !.then = "reply",
                      !.log = Append(@, Logged("send_message", job.batch[job.pos].body,
                                              None, "Error: str(e)[:200]", ok))]
    /\ UNCHANGED <<raw, cfg, secret, probe, pending, wh, queue, worker, dedup, now, claims, applied, gateway>>

\* mutant: the await of the cancelled typing task never returns
AfterFinally_never_joined(then) == "finally"

\* where process_message goes once the cancelled typing task has been
\* awaited: the pending exception goes on, or the function goes on to the reply
AfterFinally(then) == IF then = "raise" THEN "raised" ELSE "reply"

\* finally: cancel the typing task and await it (keep_typing catches
\* Exception only, so the cancellation ends it)
Finally ==
    /\ job.pc = "finally"
    /\ job' = [job EXCEPT !.typing = CancelAndJoin(job.typing),
                          !.pc = AfterFinally(job.then)]
    /\ UNCHANGED <<raw, cfg, secret, probe, pending, wh, queue, worker, dedup, now, claims, applied, gateway>>

\* the text of the reply: "Agent error: ..." for a result with is_error (the
\* default result included), the response otherwise
ReplyText(agent) == IF agent = "ok" THEN "response" ELSE "Agent error: error_message"

\* mutant: every failure of the reply is swallowed
ReplyRaises_never(outcome) == FALSE

\* whether an exception leaves process_message from the reply: a BadRequest
\* other than "parse entities" (the bare raise), any other exception of the
\* formatted send, or any exception of the plain-text send
ReplyRaises(outcome) == outcome \in {"parse_fail", "bad_request", "fail"}

\* send the reply as MarkdownV2; on BadRequest "parse entities" send it again
\* as plain text, outside any try; any other BadRequest is re-raised, and any
\* other exception of either send leaves process_message as it is
SendReply ==
    /\ job.pc = "reply"
    /\ \E outcome \in ReplyOutcomes :
           LET body  == job.batch[job.pos].body
               first == Logged("send_message", body, ReplyToId(body),
                               ReplyText(job.agent), outcome = "ok")
               plain == Logged("send_plain", body, ReplyToId(body),
                               ReplyText(job.agent), outcome = "parse_ok")
               sent  == IF outcome \in {"parse_ok", "parse_fail"}
                        THEN <<first, plain>> ELSE <<first>>
               j     == [job EXCEPT !.log = @ \o sent, !.rejected = BadRequestOf(outcome)]
           IN  job' = IF ReplyRaises(outcome)
                      THEN [j EXCEPT !.pc = "raised"]
                      ELSE NextOf(j, "answered")
    /\ UNCHANGED <<raw, cfg, secret, probe, pending, wh, queue, worker, dedup, now, claims, applied, gateway>>

\* lambda_handler re-raised: the invocation failed and SQS delivers the batch
\* again
Redeliver ==
    /\ job.pc = "raised"
    /\ job' = [NoJob EXCEPT !.pc = "loads", !.batch = job.batch, !.pos = 1,
                            !.redelivered = TRUE, !.earlier = job.handled]
    /\ UNCHANGED <<raw, cfg, secret, probe, pending, wh, queue, worker, dedup, now, claims, applied, gateway>>

InitWorker == InitWith(DeployedDoc, None)

NextWorker ==
    \/ Invoke
    \/ Loads
    \/ Reconstruct
    \/ TypingTick
    \/ AgentCallEnds
    \/ TimeoutNotice
    \/ ErrorNotice
    \/ Finally
    \/ SendReply
    \/ Redeliver

SpecWorker == InitWorker /\ [][NextWorker]_vars

\* The steps of one processing that the runtime keeps taking: the synchronous
\* statements of the loop and of process_message, the Agent Server call (it
\* ends with a result or, after the client timeout, an exception), the awaited
\* chat-platform sends, and the finally block. Nothing is assumed of new
\* invocations, of redelivery, or of the typing task. At most one of these
\* steps is enabled at a time (each is guarded by its own value of job.pc).
WorkerProgress ==
    WF_vars(Loads \/ Reconstruct \/ AgentCallEnds \/ TimeoutNotice \/ ErrorNotice
               \/ Finally \/ SendReply)

SpecWorkerLive == SpecWorker /\ WorkerProgress

---------------------------------------------------------------------------
(* Properties of a consumer invocation (SpecWorker) *)

\* the messages sent for the record at pos
SendsOfJob == {k \in 1..Len(job.log) : job.log[k].op \in {"send_message", "send_plain"}}

\* the thread a job is answered in: its own thread_id when it has one, the
\* thread of the original message otherwise
AnswerThread(body) ==
    IF body.thread_id /= None THEN body.thread_id ELSE body.update.thread

InTryBlock == job.pc \in {"call", "timeout_notice", "error_notice", "finally"}

\* C17: when the Agent Gateway call times out, the timeout notice is sent to
\* the effective thread of the job, no agent reply is sent, and
\* process_message raises, so the invocation fails (and the batch is
\* delivered again).
C17_TimeoutNoticeThenRaise ==
    job.agent = "timeout"
        => /\ job.pc \in {"timeout_notice", "finally", "raised"}
           /\ job.pc = "finally" => job.then = "raise"
           /\ job.pc /= "timeout_notice"
                  => /\ Cardinality(SendsOfJob) = 1
                     /\ \A k \in SendsOfJob :
                            /\ job.log[k].text = "Request timed out."
                            /\ job.log[k].chat = job.batch[job.pos].body.update.chat
                            /\ job.log[k].thread = AnswerThread(job.batch[job.pos].body)

\* a job for topic 9, made from a message in topic 5, timed out again after
\* the batch had come back
C17_Witness ==
    /\ job.agent = "timeout" /\ job.pc = "raised" /\ job.redelivered
    /\ job.batch[job.pos].body.thread_id = Some(NewTopic)
    /\ job.batch[job.pos].body.update.thread = Some(5)

\* C18 (as stated): when the Agent Gateway call fails with another exception
\* than a timeout, the only message of the job is the truncated error message
\* and the Worker signals no failure, whether or not that message could be sent.
C18_OnlyErrorNoticeNoFailure ==
    job.agent = "error"
        => /\ \A k \in SendsOfJob : job.log[k].text = "Error: str(e)[:200]"
           /\ Cardinality(SendsOfJob) <= 1
           /\ job.pc /= "raised"

\* after the error message the generic "Agent error" reply was tried as
\* well, failed, and the invocation failed
C18_SecondMessageAndFailure ==
    /\ job.agent = "error" /\ job.pc = "raised"
    /\ \E k \in SendsOfJob : job.log[k].text = "Agent error: error_message"

\* C19: the typing task of a job runs only inside the try block around the
\* gateway call: on every way out (result, timeout, other exception) it is
\* cancelled and joined, so it is not running, and sends no tick, once
\* process_message has gone on to the reply, returned or raised.
C19_TypingStopsOnEveryExit ==
    job.typing = "running" => InTryBlock

\* ticks were sent, the call timed out, the function raised with the task joined
C19_Witness ==
    /\ job.pc = "raised" /\ job.agent = "timeout"
    /\ job.ticked /\ job.typing = "joined"

\* the formatted (MarkdownV2) sends of the agent reply, and the plain-text sends
FormattedReplies ==
    {k \in 1..Len(job.log) : /\ job.log[k].op = "send_message"
                             /\ job.log[k].text = ReplyText(job.agent)}

PlainResends == {k \in 1..Len(job.log) : job.log[k].op = "send_plain"}

\* the plain-text send follows the rejected formatted send and repeats its
\* chat, thread, reply reference and text
ResentOnce ==
    /\ Cardinality(PlainResends) = 1
    /\ \A k \in PlainResends :
           /\ k - 1 \in FormattedReplies
           /\ ~job.log[k - 1].ok
           /\ [job.log[k] EXCEPT !.op = "send_message", !.ok = FALSE] = job.log[k - 1]

\* C25 (as stated): when the formatted reply is rejected with a parse-entities
\* error the Worker sends the same reply once more as plain text to the same
\* thread and signals no failure; any other rejection of the formatted reply
\* is propagated as a failure.
C25_Original ==
    /\ job.rejected = "parse entities" => ResentOnce /\ job.pc /= "raised"
    /\ job.rejected = "other" => PlainResends = {} /\ job.pc = "raised"

\* C25 (amended): as above, except that the plain-text send is not protected:
\* the Worker signals a failure exactly when that second send fails as well.
C25_PlainResendUnlessOtherRejection ==
    /\ job.rejected = "parse entities" =>
           /\ ResentOnce
           /\ \A k \in PlainResends : job.pc = "raised" <=> ~job.log[k].ok
    /\ job.rejected = "other" => PlainResends = {} /\ job.pc = "raised"

\* a reply redirected into a new topic was rejected for its entities, went out
\* as plain text, and the loop went on
C25_Witness ==
    /\ job.rejected = "parse entities" /\ job.pc = "loads"
    /\ job.handled /= <<>> /\ job.handled[Len(job.handled)] = "answered"
    /\ \E k \in PlainResends : job.log[k].ok /\ job.log[k].thread = Some(NewTopic)

\* process_message has just left the reply: by an exception, or by returning
\* to the loop of lambda_handler
LeftReply ==
    \/ job.pc = "raised" /\ job.then = "reply"
    \/ /\ job.pc = "loads" /\ job.handled /= <<>>
       /\ job.handled[Len(job.handled)] = "answered"

\* the job the log belongs to: the record at pos, or the one before it once
\* the loop has gone on
LoggedBody == job.batch[IF job.pc = "loads" THEN job.pos - 1 ELSE job.pos].body

\* C26: the agent reply (formatted or resent as plain text) refers to the
\* original message exactly when the thread it is sent to is the thread of the
\* original message; a reply redirected into another thread carries no reply
\* reference.
C26_ReplyReferenceIffSameThread ==
    LeftReply =>
    /\ FormattedReplies /= {}
    /\ \A k \in FormattedReplies \cup PlainResends :
        /\ job.log[k].thread = AnswerThread(LoggedBody)
        /\ job.log[k].reply_to =
               IF AnswerThread(LoggedBody) = LoggedBody.update.thread
               THEN Some(LoggedBody.update.mid) ELSE None

\* a job of a message in topic 5 redirected into a new topic was answered
\* there, without a reply reference
C26_Witness ==
    /\ LeftReply /\ job.pc = "loads"
    /\ LoggedBody.update.thread = Some(5) /\ LoggedBody.thread_id = Some(NewTopic)
    /\ \E k \in FormattedReplies :
           /\ job.log[k].ok /\ job.log[k].thread = Some(NewTopic)
           /\ job.log[k].reply_to = None

Malformed(record) == record.kind \in {"badjson", "nopayload"}

\* C20 (as stated): a record whose body is not JSON, or is JSON without the
\* original payload, is dropped: nothing is called or sent for it, the
\* invocation does not fail on it, and when the invocation returns the jobs
\* after it have been processed.
C20_MalformedDropped ==
    \A i \in 1..Len(job.batch) :
        Malformed(job.batch[i])
            => /\ i < job.pos => job.handled[i] = "skipped"
               /\ ~(job.pc = "raised" /\ job.pos = i)
               /\ job.pc = "returned"
                      => \A j \in (i + 1)..Len(job.batch) :
                             job.batch[j].kind = "job" => job.handled[j] = "answered"

\* a record without the payload fails the invocation before the job behind it
\* is looked at
C20_MissingPayloadRaises ==
    /\ job.pc = "raised" /\ job.pos < Len(job.batch)
    /\ job.batch[job.pos].kind = "nopayload"
    /\ job.batch[job.pos + 1].kind = "job"

\* the text a job is processed with: its own text when it has a non-empty one,
\* the text of the original message otherwise
AnswerText(body) ==
    IF body.text /= None /\ Val(body.text) /= <<>> THEN body.text ELSE body.update.text

\* process_message is working on the record the log belongs to
Working ==
    /\ job.request /= None
    /\ job.pc \notin {"loads", "returned"} \/ LeftReply

\* C32: the text and thread the Worker uses are the job's text and thread_id
\* when present and non-empty, the original message's otherwise; the request
\* to the Agent Server, the typing indicators, the notices and the reply all
\* carry that thread, and the request carries that text.
C32_EffectiveTextAndThread ==
    Working =>
        /\ Val(job.request).user_message = AnswerText(LoggedBody)
        /\ Val(job.request).chat_id = IntStr(LoggedBody.update.chat)
        /\ Val(job.request).thread_id =
               IF AnswerThread(LoggedBody) = None THEN None
               ELSE Some(IntStr(Val(AnswerThread(LoggedBody))))
        /\ job.tick_thread /= None => Val(job.tick_thread) = AnswerThread(LoggedBody)
        /\ \A k \in 1..Len(job.log) :
               /\ job.log[k].thread = AnswerThread(LoggedBody)
               /\ job.log[k].chat = LoggedBody.update.chat

\* a job derived from "/n p": the prompt went to the Agent Server, and the
\* typing indicator and the reply went to the new topic
C32_Witness ==
    /\ Working /\ LeftReply /\ job.pc = "loads"
    /\ LoggedBody.text = Some(<<"p">>) /\ LoggedBody.update.text = Some(T_newchat_p)
    /\ Val(job.request).user_message = Some(<<"p">>)
    /\ Val(job.request).thread_id = Some("9")
    /\ job.tick_thread = Some(Some(NewTopic))
    /\ \E k \in FormattedReplies : job.log[k].ok /\ job.log[k].thread = Some(NewTopic)

\* a message of the job has reached the user
MessageDelivered == \E k \in SendsOfJob : job.log[k].ok

\* C34 (as stated): the typing task is cancelled when the Agent Server call
\* resolves or times out, before any message of the job (timeout notice, error
\* message, reply) is sent: once such a message is out the task is not running,
\* so no tick can follow it.
C34_TypingCancelledBeforeMessages ==
    (Working /\ MessageDelivered) => job.typing /= "running"

\* the timeout notice has been delivered and the typing task has not been
\* cancelled yet: it is still running and can send a tick
C34_NoticeWhileTyping ==
    /\ Working /\ job.agent = "timeout" /\ job.pc = "finally"
    /\ \E k \in SendsOfJob : job.log[k].ok /\ job.log[k].text = "Request timed out."
    /\ job.typing = "running" /\ ENABLED TypingTick

---------------------------------------------------------------------------
(* agent-sdk-server: handler.py, agent_session.py, and the session store *)

\* Session ids (resume tokens) the agent runtime can report; "" is a result
\* without one.
SessionIds == {"s1", "s2"}

TruthyId(x) == x /= None /\ Val(x) /= ""

\* SessionStore.get_session_id(chat_id, thread_id): the token last saved for
\* the key, None for a key never saved
get_session_id_ignores_thread(sessions, chat_id, thread_id) ==
    IF \E k \in DOMAIN sessions : k[1] = chat_id /\ sessions[k] /= None
    THEN sessions[CHOOSE k \in DOMAIN sessions : k[1] = chat_id /\ sessions[k] /= None]
    ELSE None

get_session_id(sessions, chat_id, thread_id) == sessions[<<chat_id, thread_id>>]

\* SessionStore.save_session_id(chat_id, thread_id, session_id): upsert of one key
save_session_id(sessions, chat_id, thread_id, session_id) ==
    [sessions EXCEPT ![<<chat_id, thread_id>>] = Some(session_id)]

\* agent_session.process_message: how one run of the agent can end.
\*   "result"  a ResultMessage arrived: its session_id and is_error are returned
\*   "caught"  query() raised inside the try block: is_error, session id unchanged
\*   "silent"  the stream ended without a ResultMessage: session id unchanged
\*   "raised"  an exception before the try block (makedirs, load_agents, ...)
AgentRuns ==
    {[how |-> "result", sid |-> x, is_error |-> e] :
        x \in SessionIds \cup {""}, e \in BOOLEAN}
    \cup {[how |-> h, sid |-> "", is_error |-> h = "caught"] :
             h \in {"caught", "silent", "raised"}}

\* the session_id of the dict process_message returns
process_message(session_id, run) ==
    IF run.how = "result" THEN run.sid
    ELSE IF TruthyId(session_id) THEN Val(session_id) ELSE ""

\* mutant: the mapping is written whatever the result's session id is
ShouldSave_unconditional(result_session_id, session_id) == TRUE

\* if result_session_id and result_session_id != session_id
ShouldSave(result_session_id, session_id) ==
    result_session_id /= "" /\ Some(result_session_id) /= session_id

StoreCalls == {"get", "download", "save", "upload", "stamp"}

Called(op, F) == [op |-> op, ok |-> op \notin F]

\* mutant: a failed download is logged and the request goes on
AbortsOnDownloadFailure_never(F) == FALSE

\* except Exception around download_session_files: return 500
AbortsOnDownloadFailure(F) == "download" \in F

\* lambda_handler of the Agent Server for an authorized, well-formed request:
\* the store calls that fail are those in F.  The result is the request record
\* and the store after it.
agent_lambda_handler(gw, chat_id, thread_id, run, F) ==
    LET key        == <<chat_id, thread_id>>
        session_id == get_session_id(gw.sessions, chat_id, thread_id)
        base       == [kind |-> "ok", http |-> NoHttp, key |-> key, resume |-> None,
                       calls |-> <<>>,
                       status |-> "none", session_id |-> None,
                       before |-> gw.sessions[key]]
        got        == <<Called("get", F)>>
        loaded     == IF TruthyId(session_id) THEN got \o <<Called("download", F)>> ELSE got
        rsid       == process_message(session_id, run)
        invoked    == Append(loaded, [op |-> "agent", ok |-> run.how /= "raised"])
        saving     == ShouldSave(rsid, session_id)
        afterSave  == IF saving THEN Append(invoked, Called("save", F)) ELSE invoked
        afterUp    == IF rsid = "" THEN afterSave
                      ELSE IF "upload" \in F THEN Append(afterSave, Called("upload", F))
                      ELSE afterSave \o <<Called("upload", F), Called("stamp", F)>>
    IN  IF "get" \in F
        THEN [gw EXCEPT !.req = [base EXCEPT !.calls = got, !.status = "raised"]]
        ELSE IF TruthyId(session_id) /\ AbortsOnDownloadFailure(F)
        THEN [gw EXCEPT !.req = [base EXCEPT !.calls = loaded, !.status = "500"]]
        ELSE IF run.how = "raised"
        THEN [gw EXCEPT !.req = [base EXCEPT !.calls = invoked, !.status = "500",
                                             !.resume = session_id,
                                             !.session_id = session_id]]
        ELSE [sessions |-> IF saving /\ "save" \notin F
                           THEN save_session_id(gw.sessions, chat_id, thread_id, rsid)
                           ELSE gw.sessions,
              files    |-> IF rsid /= "" /\ "upload" \notin F
                           THEN gw.files \cup {rsid} ELSE gw.files,
              req      |-> [base EXCEPT !.calls = afterUp, !.status = "200",
                                        !.resume = session_id,
                                        !.session_id = Some(rsid)]]

\* config.auth_token, and the Authorization header made from a token
AuthToken == "t"

Bearer(token) == <<"Bearer ", token>>

\* An HTTP request to the Agent Server:
\*   auth   the Authorization header ('' when absent)
\*   body   "badjson" (json.loads raises JSONDecodeError), "notobject" (JSON
\*          that is not an object: body.get raises AttributeError), "object"
\*   user_message, chat_id, thread_id  the fields of the object, when present
GatewayHttp ==
    {[auth |-> a, body |-> b, user_message |-> Some("hi"), chat_id |-> Some("100"),
      thread_id |-> None] :
        a \in {<<>>, <<AuthToken>>, Bearer("x"), Bearer(AuthToken)},
        b \in {"badjson", "notobject", "object"}}
    \cup
    {[auth |-> Bearer(AuthToken), body |-> "object", user_message |-> um,
      chat_id |-> c, thread_id |-> th] :
        um \in {None, Some(""), Some("hi")},
        c \in {None, Some(""), Some("100")},
        th \in {None, Some("5")}}

\* mutant: the Authorization header is not looked at
RejectKind_ignores_token(http) ==
    IF http.body = "badjson" THEN "badjson"
    ELSE IF http.body = "notobject" THEN "notobject"
    ELSE IF ~TruthyId(http.user_message) \/ ~TruthyId(http.chat_id) THEN "missing"
    ELSE "ok"

\* the checks of lambda_handler before the session store is set up, in order:
\* the bearer token, json.loads, the two required fields
RejectKind(http) ==
    IF http.auth /= Bearer(AuthToken) THEN "unauthorized"
    ELSE IF http.body = "badjson" THEN "badjson"
    ELSE IF http.body = "notobject" THEN "notobject"
    ELSE IF ~TruthyId(http.user_message) \/ ~TruthyId(http.chat_id) THEN "missing"
    ELSE "ok"

\* a request that is turned away before the store is touched: wrong bearer
\* token (401), body that is not JSON or lacks user_message / chat_id (400);
\* a JSON body that is not an object ends the invocation with an exception
Rejected(gw, http) ==
    [gw EXCEPT !.req = [kind |-> RejectKind(http), http |-> http,
                        key |-> <<"100", None>>, resume |-> None,
                        calls |-> <<>>,
                        status |-> CASE RejectKind(http) = "unauthorized" -> "401"
                                     [] RejectKind(http) = "notobject" -> "raised"
                                     [] OTHER -> "400",
                        session_id |-> None, before |-> None]]

GatewayReject ==
    /\ \E http \in GatewayHttp :
           /\ RejectKind(http) /= "ok"
           /\ gateway' = Rejected(gateway, http)
    /\ UNCHANGED <<raw, cfg, secret, probe, pending, wh, queue, worker, dedup, now, claims, applied, job>>

GatewayRequest ==
    /\ \E http \in GatewayHttp, run \in AgentRuns, F \in SUBSET StoreCalls :
           /\ RejectKind(http) = "ok"
           /\ gateway' = [agent_lambda_handler(gateway, Val(http.chat_id),
                                               http.thread_id, run, F)
                              EXCEPT !.req.http = http]
    /\ UNCHANGED <<raw, cfg, secret, probe, pending, wh, queue, worker, dedup, now, claims, applied, job>>

InitGateway == InitWith(DeployedDoc, None)

NextGateway == GatewayRequest \/ GatewayReject

SpecGateway == InitGateway /\ [][NextGateway]_vars

---------------------------------------------------------------------------
(* Properties of the Agent Server (SpecGateway) *)

\* the store calls of the last request that failed
FailedCalls == {gateway.req.calls[i].op : i \in {j \in 1..Len(gateway.req.calls) :
                                                   ~gateway.req.calls[j].ok}}

MadeCalls == {gateway.req.calls[i].op : i \in 1..Len(gateway.req.calls)}

\* C21 (as stated): a failure to download the session before the call, or to
\* save it after the call (mapping write, upload, timestamp update), never
\* aborts the request: the agent is invoked and its result returned with 200.
C21_Original ==
    (gateway.req.kind = "ok" /\ FailedCalls /= {}
        /\ FailedCalls \subseteq {"download", "save", "upload", "stamp"})
        => ("agent" \in MadeCalls /\ gateway.req.status = "200")

\* C21: a failure to save the session after the call (mapping write, upload,
\* timestamp update) never aborts the request: the result of the agent is
\* returned with 200.  A failure to download the session before the call
\* ends the request with 500 and the agent is not invoked.
C21_SaveFailureTolerated ==
    (gateway.req.kind = "ok" /\ FailedCalls /= {})
        => /\ FailedCalls \subseteq {"save", "upload", "stamp"}
                  => ("agent" \in MadeCalls /\ gateway.req.status = "200")
           /\ FailedCalls = {"download"}
                  => ("agent" \notin MadeCalls /\ gateway.req.status = "500")

\* the mapping write and the upload both failed and the result was returned
C21_Witness ==
    /\ gateway.req.kind = "ok" /\ FailedCalls = {"save", "upload"}
    /\ gateway.req.status = "200" /\ gateway.req.session_id = Some("s1")

C23_TokenNeverReverts ==
    [][\A k \in SessionKeys :
          TruthyId(gateway.sessions[k]) => TruthyId(gateway.sessions'[k])]_vars

\* a stored token was replaced by another one
C23_Witness ==
    /\ gateway.req.kind = "ok" /\ gateway.req.before = Some("s1")
    /\ gateway.sessions[gateway.req.key] = Some("s2")

\* the request carries the right bearer token
Authorized(http) == http.auth = <<"Bearer ", "t">>

\* the body is a JSON object without a non-empty user_message or chat_id
LacksField(http) ==
    /\ http.body = "object"
    /\ http.user_message \in {None, Some("")} \/ http.chat_id \in {None, Some("")}

Processing ==
    job.pc \in {"de_json", "call", "timeout_notice", "error_notice", "finally", "reply"}

\* C37: every processing of a job by the Worker eventually finishes: once
\* process_message has been entered for a record it returns (the loop goes on
\* or the invocation returns) or raises, whatever the typing task does meanwhile.
C37_ProcessingFinishes == Processing ~> ~Processing

\* both records of a batch were answered, the typing task of the second having
\* sent indicators before it was joined
C37_Witness ==
    /\ job.pc = "loads" /\ job.handled = <<"answered", "answered">>
    /\ job.ticked /\ job.typing = "joined" /\ job.agent = "ok"

\* the records that were answered in the invocation that failed last
AnsweredEarlier == {i \in 1..Len(job.earlier) : job.earlier[i] = "answered"}

\* the record at pos has had its request made to the Agent Server
CalledAgain == job.pc \in {"call", "timeout_notice", "error_notice", "finally", "reply"}

\* C38 (as stated): when an invocation with several records fails on one of
\* them, the records it had already answered are not processed again when the
\* batch comes back: no further Agent Server call and no further reply.
C38_AnsweredNotProcessedAgain ==
    \A i \in AnsweredEarlier : ~(job.pos = i /\ CalledAgain)

\* the first record was answered, the second timed out, and in the
\* redelivered batch the first record was answered once more
C38_AnsweredTwice ==
    /\ job.redelivered /\ Len(job.batch) = 2
    /\ job.earlier = <<"answered">>
    /\ job.pos = 2 /\ job.pc = "loads" /\ job.handled = <<"answered">>
    /\ \E k \in SendsOfJob : job.log[k].ok /\ job.log[k].text = "response"

\* the configured list holds no integer and no 'all'
NoValidEntry(section) ==
    /\ section.t = "list"
    /\ \A i \in 1..Len(section.items) : section.items[i].k \notin {"int", "all"}

\* C39 (as stated): the whitelist that configuration loading produces is
\* never empty and holds only integers and the wildcard 'all'; when the
\* configured list is empty or has no valid entry it is exactly ['all'].
C39_WhitelistIntegersOrAll ==
    cfg.ok
        => /\ cfg.user_whitelist /= <<>>
           /\ \A i \in 1..Len(cfg.user_whitelist) :
                  cfg.user_whitelist[i].k \in {"int", "all"}
           /\ (raw.exists /\ raw.utf8 /\ raw.parses /\ NoValidEntry(raw.wl))
                  => cfg.user_whitelist = <<WlAll>>

\* user_whitelist = [true] was loaded as [True], which admits the sender with
\* id 1 and no other
C39_BooleanKept ==
    /\ cfg.ok /\ raw.wl = [t |-> "list", items |-> <<WlBool(TRUE)>>]
    /\ cfg.user_whitelist = <<WlBool(TRUE)>>
    /\ is_user_allowed(1, cfg.user_whitelist)
    /\ ~is_user_allowed(AllowedUser, cfg.user_whitelist)

\* C40 (as stated): for a private-chat message nothing is enqueued and no
\* local command or handler is run unless the sender id is present and
\* allowed by the whitelist.
C40_PrivateOnlyForAllowedSender ==
    (Handled /\ wh.ev.kind = "message" /\ wh.ev.ctype = "private"
        /\ ~SenderAllowed(wh.ev))
        => wh.eff = <<>>

\* a private message that carries no sender was enqueued for the agent
C40_SenderlessEnqueued ==
    /\ Handled /\ wh.ev.kind = "message" /\ wh.ev.ctype = "private"
    /\ wh.ev.from = None /\ wh.ev.text = Some(T_hi)
    /\ Enqueues(wh.eff) /= {}
    /\ Len(queue) = 1

====
